---- MODULE Spec2Model ----
(***************************************************************************)
(* Recurring pattern detection and liquidity projection engine of          *)
(* EasierBanking (src/src/utils/recurringTransactions.ts).                 *)
(*                                                                         *)
(* Conventions of the model                                                *)
(*  - a calendar day is a day number, day 0 being 1 January 2024;       *)
(*  - a JavaScript Date is [day, time]: the local calendar day and the     *)
(*    local time of day in hours;                                          *)
(*  - a date string is [day, time, dateOnly]: "yyyy-mm-dd" strings (trade  *)
(*    dates) have dateOnly = TRUE, toISOString() output has FALSE;         *)
(*  - a description is a sequence of one-character strings;                *)
(*  - an amount produced by an average is the rational <<num, den>>;       *)
(*  - an absent optional number that the code tests for truthiness is 0,   *)
(*    an absent optional string is Undefined.                              *)
(***************************************************************************)
EXTENDS Integers, Sequences, FiniteSets, TLC

VARIABLES pc, transactions, minOccurrences, manualRules, now, detected,
          currentBalance, recurringIncomes, recurringExpenses, daysToProject,
          startDate, forecast, lowest, buffer, details, subscriptions, burnRate,
          avgDays, frequency, rawDescription, normalizedDesc, activeSession, calls,
          rulesState, pendingRules, effects, localStorage, statements, isLoading,
          database, pending

vars == <<pc, transactions, minOccurrences, manualRules, now, detected,
          currentBalance, recurringIncomes, recurringExpenses, daysToProject,
          startDate, forecast, lowest, buffer, details, subscriptions, burnRate,
          avgDays, frequency, rawDescription, normalizedDesc, activeSession, calls,
          rulesState, pendingRules, effects, localStorage, statements, isLoading,
          database, pending>>

\* the variables of detection and projection
engineVars == <<transactions, minOccurrences, manualRules, now, detected, currentBalance,
                recurringIncomes, recurringExpenses, daysToProject, startDate, forecast>>

\* the variables written by the analyses that follow detection and projection
analysisVars == <<lowest, buffer, details, subscriptions, burnRate, avgDays, frequency>>

\* the argument and the result of normalizeDescription
textVars == <<rawDescription, normalizedDesc>>

\* the state of useRecurringRulesManager: the rules, the update a setRules
\* call has queued, the effects of the last commit still to run, and the
\* recurring_rules_<sessionId> items of localStorage
managerVars == <<rulesState, pendingRules, effects, localStorage>>

\* the state of App: the statements, the loading flag, the monthlyData
\* store of the database and the asynchronous calls in flight
appVars == <<statements, isLoading, database, pending>>

\* the state of the application shell: the active session of useSession,
\* the number of user actions so far, and the two groups above
shellVars == <<activeSession, calls, managerVars, appVars>>

\* the variables of the operations outside detection, projection and analysis
otherVars == <<textVars, shellVars>>

----------------------------------------------------------------------------
(* Bounds of the explored inputs *)

MaxTxns == 4
MaxRules == 2
MaxEntries == 2
MaxPoints == 4
MaxSeries == 3
MaxMeanGap == 110
MaxHistory == 13
MaxFill == 30
MaxCalls == 4

Undefined == "undefined"

Null == "null"

----------------------------------------------------------------------------
(* Generic helpers *)

Abs(x) == IF x < 0 THEN -x ELSE x

Min2(a, b) == IF a <= b THEN a ELSE b

Range(s) == {s[i] : i \in DOMAIN s}

RECURSIVE SumSeq(_)
SumSeq(s) == IF s = <<>> THEN 0 ELSE Head(s) + SumSeq(Tail(s))

RECURSIVE Flatten(_)
Flatten(ss) == IF ss = <<>> THEN <<>> ELSE Head(ss) \o Flatten(Tail(ss))

MaxOf(S) == CHOOSE x \in S : \A y \in S : y <= x
MinOf(S) == CHOOSE x \in S : \A y \in S : x <= y

----------------------------------------------------------------------------
(* Strings: String.prototype.toLowerCase, includes, trim, and the regular  *)
(* expression classes \d, \w and \s used by normalizeDescription           *)

UpperLetters == <<"A","B","C","D","E","F","G","H","I","J","K","L","M",
                  "N","O","P","Q","R","S","T","U","V","W","X","Y","Z">>
LowerLetters == <<"a","b","c","d","e","f","g","h","i","j","k","l","m",
                  "n","o","p","q","r","s","t","u","v","w","x","y","z">>
Digits == {"0","1","2","3","4","5","6","7","8","9"}
Whitespace == {" "}

toLowerCaseChar(c) ==
    IF \E i \in DOMAIN UpperLetters : UpperLetters[i] = c
    THEN LowerLetters[CHOOSE i \in DOMAIN UpperLetters : UpperLetters[i] = c]
    ELSE c

toLowerCase(s) == [i \in DOMAIN s |-> toLowerCaseChar(s[i])]

\* \w is [A-Za-z0-9_]
IsWordChar(c) == c \in Range(UpperLetters) \cup Range(LowerLetters) \cup Digits \cup {"_"}

RECURSIVE TrimStart(_)
TrimStart(s) == IF s # <<>> /\ Head(s) \in Whitespace THEN TrimStart(Tail(s)) ELSE s

RECURSIVE TrimEnd(_)
TrimEnd(s) ==
    IF s # <<>> /\ s[Len(s)] \in Whitespace THEN TrimEnd(SubSeq(s, 1, Len(s) - 1)) ELSE s

trim(s) == TrimEnd(TrimStart(s))

substring(s, from, to) == SubSeq(s, from + 1, Min2(to, Len(s)))

includes(s, p) ==
    \E i \in 0..(Len(s) - Len(p)) : SubSeq(s, i + 1, i + Len(p)) = p

NormalizedLength == 30

normalizeDescription(description) ==
    LET lowered == toLowerCase(description)
        noDigits == SelectSeq(lowered, LAMBDA c : c \notin Digits)
        noSpecial == SelectSeq(noDigits, LAMBDA c : IsWordChar(c) \/ c \in Whitespace)
    IN substring(trim(noSpecial), 0, NormalizedLength)

----------------------------------------------------------------------------
(* Calendar and the date-fns / Date operations the engine calls *)

\* day number 0 is 1 January of this year
Epoch == [year |-> 2024, month |-> 1]

IsLeapYear(y) == (y % 4 = 0 /\ y % 100 # 0) \/ y % 400 = 0

DaysInMonth(y, m) ==
    IF m = 2 THEN (IF IsLeapYear(y) THEN 29 ELSE 28)
    ELSE IF m \in {4, 6, 9, 11} THEN 30 ELSE 31

RECURSIVE CivilFrom(_, _, _)
CivilFrom(y, m, rest) ==
    IF rest < DaysInMonth(y, m)
    THEN [year |-> y, month |-> m, date |-> rest + 1]
    ELSE CivilFrom(IF m = 12 THEN y + 1 ELSE y, IF m = 12 THEN 1 ELSE m + 1,
                   rest - DaysInMonth(y, m))

\* year, month (1..12) and day of month of a day number
Civil(day) == CivilFrom(Epoch.year, Epoch.month, day)

RECURSIVE DaysBefore(_, _)
DaysBefore(y, m) ==
    IF y = Epoch.year /\ m = Epoch.month THEN 0
    ELSE LET py == IF m = 1 THEN y - 1 ELSE y
             pm == IF m = 1 THEN 12 ELSE m - 1
         IN DaysBefore(py, pm) + DaysInMonth(py, pm)

DayNumber(y, m, d) == DaysBefore(y, m) + d - 1

DateString(d) == [day |-> d, time |-> 0, dateOnly |-> TRUE]

\* parseISO: a date-only string is local midnight of that day, a full
\* timestamp is the instant it names
parseISO(s) == [day |-> s.day, time |-> s.time]

\* Date.prototype.toISOString
toISOString(date) == [day |-> date.day, time |-> date.time, dateOnly |-> FALSE]

\* new Date(string).getTime(), used as a sort key only
getTime(s) == s.day * 24 + s.time

\* getDate: the day of the month
getDate(date) == Civil(date.day).date

\* date.setDate(date.getDate() + n): n calendar days later, same time of day
addCalendarDays(date, n) == [date EXCEPT !.day = date.day + n]

\* lastDayOfMonth: last day of the date's month, at 00:00
lastDayOfMonth(date) ==
    LET c == Civil(date.day)
    IN [day |-> DayNumber(c.year, c.month, DaysInMonth(c.year, c.month)), time |-> 0]

\* addMonths(date, 1): same day of the next month, capped at its last day
addMonths(date, n) ==
    LET c == Civil(date.day)
        m0 == (c.month - 1) + n
        y == c.year + (m0 \div 12)
        m == (m0 % 12) + 1
    IN [date EXCEPT !.day = DayNumber(y, m, Min2(c.date, DaysInMonth(y, m)))]

\* < and >= on Date objects compare the instants
DateLess(a, b) == a.day < b.day \/ (a.day = b.day /\ a.time < b.time)

compareLocalAsc(l, r) ==
    IF DateLess(l, r) THEN -1 ELSE IF DateLess(r, l) THEN 1 ELSE 0

\* date-fns differenceInDays: the number of full days between two dates
differenceInDays(l, r) ==
    LET sign == compareLocalAsc(l, r)
        difference == Abs(l.day - r.day)
        shifted == [l EXCEPT !.day = l.day - sign * difference]
        isLastDayNotFull == IF compareLocalAsc(shifted, r) = -sign THEN 1 ELSE 0
    IN sign * (difference - isLastDayNotFull)

\* getDateKey: the local yyyy-mm-dd of a Date
getDateKey(date) == Civil(date.day)

----------------------------------------------------------------------------
(* Numbers.  Day counts are integers; a mean of integers is the rational   *)
(* <<sum, count>>, NaN (0/0) being <<0, 0>>.  Comparisons of such means    *)
(* with integers are exact in IEEE doubles for the magnitudes of the model *)
(* (the mean is off by at most one unit in the 53rd bit), with the single  *)
(* exception of the tolerance test of the interval check, modelled below.  *)

Rat(n) == <<n, 1>>

RatLess(a, b) == a[1] * b[2] < b[1] * a[2]

RatEq(a, b) == a[1] * b[2] = b[1] * a[2]

RECURSIVE Gcd(_, _)
Gcd(a, b) == IF b = 0 THEN a ELSE Gcd(b, a % b)

\* a sum or difference, kept in lowest terms
Reduced(r) ==
    LET g == Gcd(Abs(r[1]), r[2]) IN <<r[1] \div g, r[2] \div g>>

RatAdd(a, b) == Reduced(<<a[1] * b[2] + b[1] * a[2], a[2] * b[2]>>)

RatSub(a, b) == Reduced(<<a[1] * b[2] - b[1] * a[2], a[2] * b[2]>>)

\* Math.round of a non-negative mean
MathRound(avg) == (2 * avg[1] + avg[2]) \div (2 * avg[2])

\* number of binary places t such that floor(S * 2^t / n) has 53 bits
RECURSIVE MantissaShift(_, _, _)
MantissaShift(S, n, t) ==
    IF S >= 2 * n THEN MantissaShift(S, 2 * n, t - 1)
    ELSE IF S < n THEN MantissaShift(2 * S, n, t + 1)
    ELSE t

RECURSIVE ShiftedRemainder(_, _, _)
ShiftedRemainder(r, n, t) ==
    IF t = 0 THEN r ELSE ShiftedRemainder((2 * r) % n, n, t - 1)

\* the double nearest to S / n is larger than S / n: the remainder left
\* after the 53rd bit of the quotient is more than half a unit
DivisionRoundsUp(S, n) ==
    2 * ShiftedRemainder(S % n, n, MantissaShift(S, n, 52)) > n

\* Math.abs(i - avg) / avg < 0.2 in IEEE doubles, avg being the double
\* nearest to S / n.  Away from the boundary the doubles agree with the
\* exact value; a gap of exactly 1.2 x mean evaluates below the literal 0.2
\* when the division S / n was rounded up; a gap of exactly 0.8 x mean has
\* an exactly representable mean (1.25 x gap) and evaluates to the literal.
varianceBelowTolerance(i, S, n) ==
    IF S = 0 THEN FALSE
    ELSE IF i * n = S THEN TRUE
    ELSE IF i * n > S
         THEN 6 * S - 5 * i * n > 0
              \/ (6 * S - 5 * i * n = 0 /\ DivisionRoundsUp(S, n))
         ELSE 5 * i * n - 4 * S > 0

----------------------------------------------------------------------------
(* determineFrequency *)

\* variant: the monthly band ends below 30 days
determineFrequencyShortMonth(avgDays_) ==
    IF avgDays_[1] <= 9 * avgDays_[2] THEN "weekly"
    ELSE IF avgDays_[1] <= 16 * avgDays_[2] THEN "bi-weekly"
    ELSE IF avgDays_[1] < 30 * avgDays_[2] THEN "monthly"
    ELSE IF avgDays_[1] <= 100 * avgDays_[2] THEN "quarterly"
    ELSE "yearly"

\* variant: the bands applied to the mean rounded to whole days
determineFrequencyOfRounded(avgDays_) ==
    LET days == (2 * avgDays_[1] + avgDays_[2]) \div (2 * avgDays_[2])
    IN IF days <= 9 THEN "weekly"
       ELSE IF days <= 16 THEN "bi-weekly"
       ELSE IF days <= 35 THEN "monthly"
       ELSE IF days <= 100 THEN "quarterly"
       ELSE "yearly"

determineFrequency(avgDays_) ==
    IF avgDays_[1] <= 9 * avgDays_[2] THEN "weekly"
    ELSE IF avgDays_[1] <= 16 * avgDays_[2] THEN "bi-weekly"
    ELSE IF avgDays_[1] <= 35 * avgDays_[2] THEN "monthly"
    ELSE IF avgDays_[1] <= 100 * avgDays_[2] THEN "quarterly"
    ELSE "yearly"

----------------------------------------------------------------------------
(* Sorting: Array.prototype.sort is stable *)

RECURSIVE InsertByDate(_, _)
InsertByDate(sorted, t) ==
    IF sorted = <<>> THEN <<t>>
    ELSE IF getTime(t.tradeDate) < getTime(sorted[Len(sorted)].tradeDate)
         THEN Append(InsertByDate(SubSeq(sorted, 1, Len(sorted) - 1), t), sorted[Len(sorted)])
         ELSE Append(sorted, t)

\* sort((a, b) => new Date(a.tradeDate).getTime() - new Date(b.tradeDate).getTime())
RECURSIVE sortByTradeDate(_)
sortByTradeDate(txns) ==
    IF txns = <<>> THEN <<>>
    ELSE InsertByDate(sortByTradeDate(SubSeq(txns, 1, Len(txns) - 1)), txns[Len(txns)])

RECURSIVE InsertByAmount(_, _)
InsertByAmount(sorted, e) ==
    IF sorted = <<>> THEN <<e>>
    ELSE IF RatLess(sorted[Len(sorted)].amount, e.amount)
         THEN Append(InsertByAmount(SubSeq(sorted, 1, Len(sorted) - 1), e), sorted[Len(sorted)])
         ELSE Append(sorted, e)

\* the entries left in the order they were found
unsortedEntries(entries) == entries

\* sort((a, b) => b.amount - a.amount)
RECURSIVE sortByAmountDesc(_)
sortByAmountDesc(entries) ==
    IF entries = <<>> THEN <<>>
    ELSE InsertByAmount(sortByAmountDesc(SubSeq(entries, 1, Len(entries) - 1)),
                        entries[Len(entries)])

----------------------------------------------------------------------------
(* detectManualRecurringTransactions *)

ManualPrefix == <<"M","a","n","u","a","l",":"," ">>
ExcludedPrefix == <<"E","x","c","l","u","d","e","d",":"," ">>

\* the filter callback of detectManualRecurringTransactions
ruleMatches(t, rule) ==
    /\ t.type = rule.type
    /\ \/ includes(normalizeDescription(t.description),
                   normalizeDescription(rule.descriptionPattern))
       \/ includes(toLowerCase(t.description), toLowerCase(rule.descriptionPattern))
    /\ (rule.category # Undefined => t.category = rule.category)
    /\ ((rule.dayRangeStart # 0 \/ rule.dayRangeEnd # 0) =>
            LET day == getDate(parseISO(t.tradeDate))
            IN /\ (rule.dayRangeStart # 0 => day >= rule.dayRangeStart)
               /\ (rule.dayRangeEnd # 0 => day <= rule.dayRangeEnd))
    /\ ((rule.expectedAmount # 0 /\ rule.amountTolerance # <<>>) =>
            Abs(t.amount - rule.expectedAmount) * rule.amountTolerance[2]
                <= rule.expectedAmount * rule.amountTolerance[1])

\* consecutive day-gaps of a list of transactions sorted by date
intervalsOf(txns) ==
    [i \in 1..(Len(txns) - 1) |->
        differenceInDays(parseISO(txns[i + 1].tradeDate), parseISO(txns[i].tradeDate))]

idsOf(txns) == [i \in DOMAIN txns |-> txns[i].id]

amountsOf(txns) == [i \in DOMAIN txns |-> txns[i].amount]

\* variant: the projected entry is emitted whatever the transaction context
projectedRuleEntryInAnyContext(txns, rule, today) ==
    IF rule.expectedAmount # 0 \/ rule.descriptionPattern # <<>>
    THEN << [description |-> ManualPrefix \o rule.descriptionPattern,
             category |-> IF rule.category # Undefined THEN rule.category
                          ELSE "Uncategorized",
             amount |-> Rat(rule.expectedAmount),
             frequency |-> IF rule.intervalDays # 0
                           THEN determineFrequency(Rat(rule.intervalDays))
                           ELSE "monthly",
             intervalDays |-> IF rule.intervalDays # 0 THEN rule.intervalDays ELSE 30,
             lastCharged |-> toISOString(today),
             occurrences |-> 0,
             transactionIds |-> <<>>,
             isExclude |-> FALSE,
             ruleId |-> rule.id] >>
    ELSE <<>>

\* Case 1 of the rule loop: the rule matched nothing
projectedRuleEntry(txns, rule, today) ==
    LET transactionsHaveType ==
            IF Len(txns) > 0 THEN txns[1].type = rule.type ELSE TRUE
    IN IF transactionsHaveType /\ (rule.expectedAmount # 0 \/ rule.descriptionPattern # <<>>)
       THEN << [description |-> ManualPrefix \o rule.descriptionPattern,
                category |-> IF rule.category # Undefined THEN rule.category
                             ELSE "Uncategorized",
                amount |-> Rat(rule.expectedAmount),
                frequency |-> IF rule.intervalDays # 0
                              THEN determineFrequency(Rat(rule.intervalDays))
                              ELSE "monthly",
                intervalDays |-> IF rule.intervalDays # 0 THEN rule.intervalDays ELSE 30,
                lastCharged |-> toISOString(today),
                occurrences |-> 0,
                transactionIds |-> <<>>,
                isExclude |-> FALSE,
                ruleId |-> rule.id] >>
       ELSE <<>>

\* variant: the exclusion entry blocks the most recent match only
exclusionEntryOfLast(matched, rule) ==
    LET lastTransaction == matched[Len(matched)]
    IN [description |-> ExcludedPrefix \o rule.descriptionPattern,
        category |-> lastTransaction.category,
        amount |-> Rat(0),
        frequency |-> "monthly",
        intervalDays |-> 0,
        lastCharged |-> lastTransaction.tradeDate,
        occurrences |-> Len(matched),
        transactionIds |-> <<lastTransaction.id>>,
        isExclude |-> TRUE,
        ruleId |-> rule.id]

\* the entry of an exclusion rule that matched: the ids to block
exclusionEntry(matched, rule) ==
    LET lastTransaction == matched[Len(matched)]
    IN [description |-> ExcludedPrefix \o rule.descriptionPattern,
        category |-> lastTransaction.category,
        amount |-> Rat(0),
        frequency |-> "monthly",
        intervalDays |-> 0,
        lastCharged |-> lastTransaction.tradeDate,
        occurrences |-> Len(matched),
        transactionIds |-> idsOf(matched),
        isExclude |-> TRUE,
        ruleId |-> rule.id]

\* variant: the mean of the gaps comes first, the declared interval being
\* the fallback of a single match
matchedRuleEntryOfMeanFirst(matched, rule) ==
    LET lastTransaction == matched[Len(matched)]
        intervals == intervalsOf(matched)
        avgInterval == IF Len(intervals) > 0 THEN <<SumSeq(intervals), Len(intervals)>>
                       ELSE IF rule.intervalDays # 0 THEN Rat(rule.intervalDays)
                       ELSE Rat(30)
        avgAmount == <<SumSeq(amountsOf(matched)), Len(matched)>>
    IN [description |-> ManualPrefix \o rule.descriptionPattern,
        category |-> IF rule.category # Undefined THEN rule.category
                     ELSE lastTransaction.category,
        amount |-> IF rule.useAverage THEN avgAmount
                   ELSE IF rule.expectedAmount # 0 THEN Rat(rule.expectedAmount)
                   ELSE Rat(lastTransaction.amount),
        frequency |-> determineFrequency(avgInterval),
        intervalDays |-> MathRound(avgInterval),
        lastCharged |-> lastTransaction.tradeDate,
        occurrences |-> Len(matched),
        transactionIds |-> idsOf(matched),
        isExclude |-> FALSE,
        ruleId |-> rule.id]

\* the entry of a non-exclusion rule that matched
matchedRuleEntry(matched, rule) ==
    LET lastTransaction == matched[Len(matched)]
        intervals == intervalsOf(matched)
        avgInterval == IF rule.intervalDays # 0 THEN Rat(rule.intervalDays)
                       ELSE IF Len(intervals) > 0 THEN <<SumSeq(intervals), Len(intervals)>>
                       ELSE Rat(30)
        avgAmount == <<SumSeq(amountsOf(matched)), Len(matched)>>
    IN [description |-> ManualPrefix \o rule.descriptionPattern,
        category |-> IF rule.category # Undefined THEN rule.category
                     ELSE lastTransaction.category,
        amount |-> IF rule.useAverage THEN avgAmount
                   ELSE IF rule.expectedAmount # 0 THEN Rat(rule.expectedAmount)
                   ELSE Rat(lastTransaction.amount),
        frequency |-> determineFrequency(avgInterval),
        intervalDays |-> MathRound(avgInterval),
        lastCharged |-> lastTransaction.tradeDate,
        occurrences |-> Len(matched),
        transactionIds |-> idsOf(matched),
        isExclude |-> FALSE,
        ruleId |-> rule.id]

\* the body of the forEach over the enabled rules: the entries one rule adds
ruleResults(txns, rule, today) ==
    LET matched == sortByTradeDate(SelectSeq(txns, LAMBDA t : ruleMatches(t, rule)))
    IN IF Len(matched) = 0 THEN projectedRuleEntry(txns, rule, today)
       ELSE IF rule.isExclude THEN <<exclusionEntry(matched, rule)>>
       ELSE <<matchedRuleEntry(matched, rule)>>

detectManualRecurringTransactions(txns, rules, today) ==
    LET enabled == SelectSeq(rules, LAMBDA r : r.enabled)
    IN Flatten([i \in DOMAIN enabled |-> ruleResults(txns, enabled[i], today)])

----------------------------------------------------------------------------
(* detectRecurringTransactions *)

\* matchedIds: every id carried by a manual result, exclusions included
matchedIdsOf(manualResults) ==
    UNION {Range(manualResults[i].transactionIds) : i \in DOMAIN manualResults}

\* variant: only the ids of the entries that stay in the output are withheld
remainingTransactionsOfShown(txns, manualResults) ==
    SelectSeq(txns, LAMBDA t :
        t.id \notin matchedIdsOf(SelectSeq(manualResults, LAMBDA m : ~m.isExclude)))

\* the transactions left to automatic detection
remainingTransactions(txns, manualResults) ==
    SelectSeq(txns, LAMBDA t : t.id \notin matchedIdsOf(manualResults))

\* keys of the description map, in insertion order
RECURSIVE groupKeys(_)
groupKeys(sorted) ==
    IF sorted = <<>> THEN <<>>
    ELSE LET rest == groupKeys(SubSeq(sorted, 1, Len(sorted) - 1))
             key == normalizeDescription(sorted[Len(sorted)].description)
         IN IF key \in Range(rest) THEN rest ELSE Append(rest, key)

groupOf(sorted, key) ==
    SelectSeq(sorted, LAMBDA t : normalizeDescription(t.description) = key)

\* variance.every(v => v < 0.2)
isConsistent(intervals) ==
    \A i \in DOMAIN intervals :
        varianceBelowTolerance(intervals[i], SumSeq(intervals), Len(intervals))

\* avgInterval > 0, false for the NaN of an empty interval list
isPositive(avg) == avg[2] > 0 /\ avg[1] > 0

\* variant: the staleness limit itself counts as stale
isStaleAtLimit(daysSinceLastOccurrence, avgInterval) ==
    daysSinceLastOccurrence * avgInterval[2] >= 2 * avgInterval[1]

\* daysSinceLastOccurrence > avgInterval * 2
isStale(daysSinceLastOccurrence, avgInterval) ==
    daysSinceLastOccurrence * avgInterval[2] > 2 * avgInterval[1]

maxOccurrencesForAverage == 12

\* txns.slice(-maxOccurrencesForAverage)
recentOf(txns) ==
    SubSeq(txns, IF Len(txns) > maxOccurrencesForAverage
                 THEN Len(txns) - maxOccurrencesForAverage + 1 ELSE 1, Len(txns))

\* the representative amount of a group
representativeAmount(txns) ==
    LET lastTransaction == txns[Len(txns)]
        amounts == amountsOf(txns)
        recentAmounts == amountsOf(recentOf(txns))
        avgAmount == <<SumSeq(recentAmounts), Len(recentAmounts)>>
        amountVariance == MaxOf(Range(amounts)) - MinOf(Range(amounts))
        \* amountVariance > avgAmount * 0.1
        hasVariableAmount == amountVariance * 10 * avgAmount[2] > avgAmount[1]
    IN IF hasVariableAmount THEN avgAmount ELSE Rat(lastTransaction.amount)

\* the callback of descriptionGroups.forEach: the entries one group adds
analyzeGroup(txns, minOcc, today) ==
    IF Len(txns) < minOcc THEN <<>>
    ELSE LET intervals == intervalsOf(txns)
             avgInterval == IF Len(intervals) > 0
                            THEN <<SumSeq(intervals), Len(intervals)>> ELSE <<0, 0>>
             lastTransaction == txns[Len(txns)]
             daysSinceLastOccurrence ==
                 differenceInDays(today, parseISO(lastTransaction.tradeDate))
         IN IF ~(isConsistent(intervals) /\ isPositive(avgInterval)) THEN <<>>
            ELSE IF isStale(daysSinceLastOccurrence, avgInterval) THEN <<>>
            ELSE << [description |-> lastTransaction.description,
                     category |-> lastTransaction.category,
                     amount |-> representativeAmount(txns),
                     frequency |-> determineFrequency(avgInterval),
                     intervalDays |-> MathRound(avgInterval),
                     lastCharged |-> lastTransaction.tradeDate,
                     occurrences |-> Len(txns),
                     transactionIds |-> idsOf(txns),
                     isExclude |-> FALSE,
                     ruleId |-> Undefined] >>

\* the automatic entries under a threshold of two whatever minOccurrences
automaticResultsOfPairs(txns, minOcc, manualResults, today) ==
    LET sorted == sortByTradeDate(remainingTransactions(txns, manualResults))
        keys == groupKeys(sorted)
    IN Flatten([k \in DOMAIN keys |-> analyzeGroup(groupOf(sorted, keys[k]), 2, today)])

\* step 2 of detectRecurringTransactions: the automatic entries
automaticResults(txns, minOcc, manualResults, today) ==
    LET sorted == sortByTradeDate(remainingTransactions(txns, manualResults))
        keys == groupKeys(sorted)
    IN Flatten([k \in DOMAIN keys |-> analyzeGroup(groupOf(sorted, keys[k]), minOcc, today)])

\* manualResults.filter(m => !m.isExclude)
activeManualResults(manualResults) == SelectSeq(manualResults, LAMBDA m : ~m.isExclude)

detectRecurringTransactions(txns, minOcc, rules, today) ==
    LET manualResults == detectManualRecurringTransactions(txns, rules, today)
        recurring == automaticResults(txns, minOcc, manualResults, today)
    IN sortByAmountDesc(activeManualResults(manualResults) \o recurring)

----------------------------------------------------------------------------
(* projectLiquidity *)

\* the first month end tried for a rule-backed entry
firstMonthEnd(start) ==
    LET nextDate == lastDayOfMonth(start)
    IN IF DateLess(nextDate, start) THEN lastDayOfMonth(addMonths(nextDate, 1))
       ELSE nextDate

\* the while loop of the rule-backed branch: the date keys it buckets
RECURSIVE monthEndKeys(_, _, _)
monthEndKeys(nextDate, start, horizon) ==
    IF differenceInDays(nextDate, start) <= horizon
    THEN <<getDateKey(nextDate)>>
            \o monthEndKeys(lastDayOfMonth(addMonths(nextDate, 1)), start, horizon)
    ELSE <<>>

\* variant: the projection starts at the last charge itself
firstOccurrenceAtLastCharge(lastDate, intervalDays) == lastDate

\* nextDate = new Date(lastDate); nextDate.setDate(nextDate.getDate() + intervalDays)
firstOccurrence(lastDate, intervalDays) == addCalendarDays(lastDate, intervalDays)

\* the while loop of the interval branch: the date keys it buckets
RECURSIVE intervalKeys(_, _, _, _)
intervalKeys(nextDate, intervalDays, start, horizon) ==
    IF differenceInDays(nextDate, start) <= horizon
    THEN (IF ~DateLess(nextDate, start) THEN <<getDateKey(nextDate)>> ELSE <<>>)
            \o intervalKeys(addCalendarDays(nextDate, intervalDays), intervalDays,
                            start, horizon)
    ELSE <<>>

\* the date keys under which one recurring entry is bucketed
occurrenceKeys(entry, start, horizon) ==
    IF entry.ruleId # Undefined
    THEN monthEndKeys(firstMonthEnd(start), start, horizon)
    ELSE intervalKeys(firstOccurrence(parseISO(entry.lastCharged), entry.intervalDays),
                      entry.intervalDays, start, horizon)

\* the events one forEach pass adds to the map, in insertion order
eventsOf(entries, type, start, horizon) ==
    Flatten([i \in DOMAIN entries |->
        LET keys == occurrenceKeys(entries[i], start, horizon)
        IN [k \in DOMAIN keys |->
               [date |-> keys[k], type |-> type,
                description |-> entries[i].description, amount |-> entries[i].amount]]])

\* variant: only the first event of the day moves the balance
applyFirstEvent(balance, dayEvents) ==
    IF dayEvents = <<>> THEN balance
    ELSE IF Head(dayEvents).type = "income"
         THEN RatAdd(balance, Head(dayEvents).amount)
         ELSE RatSub(balance, Head(dayEvents).amount)

\* dayEvents.forEach: incomes add, expenses subtract
RECURSIVE applyEvents(_, _)
applyEvents(balance, dayEvents) ==
    IF dayEvents = <<>> THEN balance
    ELSE applyEvents(IF Head(dayEvents).type = "income"
                     THEN RatAdd(balance, Head(dayEvents).amount)
                     ELSE RatSub(balance, Head(dayEvents).amount),
                     Tail(dayEvents))

\* variant: the loop stops one day short of the horizon
isForecastDayExclusive(day, horizon) == day < horizon

\* the condition of the day loop, day <= daysToProject
isForecastDay(day, horizon) == day <= horizon

\* the day loop: one point per day, an absent event being <<>>
RECURSIVE buildForecast(_, _, _, _, _)
buildForecast(day, balance, events, start, horizon) ==
    IF ~isForecastDay(day, horizon) THEN <<>>
    ELSE LET dateKey == getDateKey(addCalendarDays(start, day))
             dayEvents == SelectSeq(events, LAMBDA e : e.date = dateKey)
             after == applyEvents(balance, dayEvents)
         IN << [date |-> dateKey,
                projectedBalance |-> after,
                event |-> IF Len(dayEvents) > 0
                          THEN << [type |-> dayEvents[1].type,
                                   description |-> dayEvents[1].description,
                                   amount |-> dayEvents[1].amount] >>
                          ELSE <<>>] >>
               \o buildForecast(day + 1, after, events, start, horizon)

projectLiquidity(balance, incomes, expenses, horizon, start) ==
    buildForecast(0, balance,
                  eventsOf(incomes, "income", start, horizon)
                      \o eventsOf(expenses, "expense", start, horizon),
                  start, horizon)

----------------------------------------------------------------------------
(* findLowestLiquidityPoint *)

\* the callback that also lets an equal balance replace the accumulator
lowerOrEqualOf(lowest_, current) ==
    IF RatLess(lowest_.projectedBalance, current.projectedBalance) THEN lowest_ ELSE current

\* the reduce callback: current replaces lowest only on a strictly lower balance
lowerOf(lowest_, current) ==
    IF RatLess(current.projectedBalance, lowest_.projectedBalance) THEN current ELSE lowest_

\* Array.prototype.reduce without initial value: the accumulator starts as
\* the first element and the callback runs on elements 2..n in order
RECURSIVE reduceLowest(_, _, _)
reduceLowest(points, acc, i) ==
    IF i > Len(points) THEN acc
    ELSE reduceLowest(points, lowerOf(acc, points[i]), i + 1)

\* the last point of the forecast, whatever the balances
finalPointOf(points) ==
    IF Len(points) = 0 THEN Null ELSE points[Len(points)]

findLowestLiquidityPoint(points) ==
    IF Len(points) = 0 THEN Null
    ELSE reduceLowest(points, points[1], 2)

----------------------------------------------------------------------------
(* identifySubscriptions, calculateSubscriptionBurnRate *)

housingKeywords ==
    << <<"r","e","n","t">>,
       <<"m","o","r","t","g","a","g","e">>,
       <<"m","i","e","t","e">>,
       <<"h","y","p","o","t","h","e","k">>,
       <<"l","e","a","s","e">> >>

\* the housing test on the description as written, without lower-casing
isHousingCostAsWritten(rt) ==
    \E k \in DOMAIN housingKeywords : includes(rt.description, housingKeywords[k])

\* housingKeywords.some(keyword => desc.includes(keyword)) on the lower-cased description
isHousingCost(rt) ==
    LET desc == toLowerCase(rt.description)
    IN \E k \in DOMAIN housingKeywords : includes(desc, housingKeywords[k])

multipliers ==
    [weekly |-> <<433, 100>>, biweekly |-> <<217, 100>>, monthly |-> <<1, 1>>,
     quarterly |-> <<33, 100>>, yearly |-> <<83, 1000>>]

multiplierOf(frequency_) ==
    IF frequency_ = "weekly" THEN multipliers.weekly
    ELSE IF frequency_ = "bi-weekly" THEN multipliers.biweekly
    ELSE IF frequency_ = "monthly" THEN multipliers.monthly
    ELSE IF frequency_ = "quarterly" THEN multipliers.quarterly
    ELSE multipliers.yearly

RatMul(a, b) == Reduced(<<a[1] * b[1], a[2] * b[2]>>)

calculateMonthlyEquivalent(amount, frequency_) == RatMul(amount, multiplierOf(frequency_))

\* { ...rt, monthlyEquivalent }
withMonthlyEquivalent(rt) ==
    [description |-> rt.description, category |-> rt.category, amount |-> rt.amount,
     frequency |-> rt.frequency, intervalDays |-> rt.intervalDays,
     lastCharged |-> rt.lastCharged, occurrences |-> rt.occurrences,
     transactionIds |-> rt.transactionIds, isExclude |-> rt.isExclude, ruleId |-> rt.ruleId,
     monthlyEquivalent |-> calculateMonthlyEquivalent(rt.amount, rt.frequency)]

identifySubscriptions(recurringTransactions) ==
    LET kept == SelectSeq(recurringTransactions, LAMBDA rt : ~isHousingCost(rt))
    IN [i \in DOMAIN kept |-> withMonthlyEquivalent(kept[i])]

\* reduce((total, sub) => total + sub.monthlyEquivalent, 0)
RECURSIVE calculateSubscriptionBurnRate(_)
calculateSubscriptionBurnRate(subs) ==
    IF subs = <<>> THEN Rat(0)
    ELSE RatAdd(calculateSubscriptionBurnRate(SubSeq(subs, 1, Len(subs) - 1)),
                subs[Len(subs)].monthlyEquivalent)

----------------------------------------------------------------------------
(* calculateSafeToSpend *)

\* date-fns isBefore, isAfter: the instants compared; addDays: n calendar
\* days later at the same local time
isBefore(date, dateToCompare) == DateLess(date, dateToCompare)

isAfter(date, dateToCompare) == DateLess(dateToCompare, date)

addDays(date, amount) == [date EXCEPT !.day = date.day + amount]

\* whether `while (isBefore(next, now)) next = addDays(next, intervalDays)`
\* ends: a date before now is never moved up to now by steps of 0 or fewer days
loopEnds(date, intervalDays, today) == ~isBefore(date, today) \/ intervalDays > 0

\* the date that loop ends on
RECURSIVE advanceToNow(_, _, _)
advanceToNow(date, intervalDays, today) ==
    IF ~isBefore(date, today) \/ intervalDays <= 0 THEN date
    ELSE advanceToNow(addDays(date, intervalDays), intervalDays, today)

creditsOf(txns) == SelectSeq(txns, LAMBDA t : t.type = "CREDIT")

debitsOf(txns) == SelectSeq(txns, LAMBDA t : t.type = "DEBIT")

\* mainPayday: the head of the incomes sorted by amount, largest first
hasMainPayday(incomes) == Len(incomes) > 0

mainPaydayOf(incomes) == sortByAmountDesc(incomes)[1]

DefaultPaydayDays == 30

nextPaydayDateOf(incomes, today) ==
    IF hasMainPayday(incomes)
    THEN advanceToNow(parseISO(mainPaydayOf(incomes).lastCharged),
                      mainPaydayOf(incomes).intervalDays, today)
    ELSE addDays(today, DefaultPaydayDays)

nextOccurrenceOf(expense, today) ==
    advanceToNow(parseISO(expense.lastCharged), expense.intervalDays, today)

\* the expense is reserved for whatever its next occurrence
alwaysReserved(expense, nextPaydayDate, today) == TRUE

\* the expense is reserved for: its next occurrence is not after the payday
isReserved(expense, nextPaydayDate, today) ==
    ~isAfter(nextOccurrenceOf(expense, today), nextPaydayDate)

\* the forEach over the expenses, adding up reservedForBills
RECURSIVE reservedOf(_, _, _, _)
reservedOf(expenses, i, nextPaydayDate, today) ==
    IF i = 0 THEN Rat(0)
    ELSE LET before == reservedOf(expenses, i - 1, nextPaydayDate, today)
         IN IF isReserved(expenses[i], nextPaydayDate, today)
            THEN RatAdd(before, expenses[i].amount)
            ELSE before

\* Math.max(0, x) without the floor
unclamped(x) == x

\* Math.max(0, x)
clampAtZero(x) == IF RatLess(x, Rat(0)) THEN Rat(0) ELSE x

\* whether both while loops of a call end for every entry
safeToSpendReturns(incomes, expenses, today) ==
    /\ hasMainPayday(incomes) =>
           loopEnds(parseISO(mainPaydayOf(incomes).lastCharged),
                    mainPaydayOf(incomes).intervalDays, today)
    /\ \A i \in DOMAIN expenses :
           loopEnds(parseISO(expenses[i].lastCharged), expenses[i].intervalDays, today)

\* the SafeToSpendDetails of a call whose loops end, given the detected
\* incomes and expenses
safeToSpendDetails(balance, incomes, expenses, buffer_, today) ==
    LET nextPaydayDate == nextPaydayDateOf(incomes, today)
        reservedForBills == reservedOf(expenses, Len(expenses), nextPaydayDate, today)
        daysUntilPayday == differenceInDays(nextPaydayDate, today)
    IN [safeToSpend |-> clampAtZero(RatSub(RatSub(balance, reservedForBills), buffer_)),
        reservedForBills |-> reservedForBills,
        daysUntilPayday |-> IF daysUntilPayday < 0 THEN 0 ELSE daysUntilPayday,
        nextPayday |-> toISOString(nextPaydayDate),
        buffer |-> buffer_,
        totalBalance |-> balance]

----------------------------------------------------------------------------
(* Inputs explored *)

Times == {0, 14}

DescStreamA == <<"N","f","l","x"," ","1">>
DescStreamB == <<"n","f","l","x","-","2","2">>
DescGym == <<"G","y","m">>

Txn(id, day, description, amount, type, category) ==
    [id |-> id, tradeDate |-> DateString(day), description |-> description,
     amount |-> amount, type |-> type, category |-> category]

\* the sub-list of a pool made of the entries at the indices in S
RECURSIVE PickSeq(_, _)
PickSeq(pool, S) ==
    IF S = {} THEN <<>>
    ELSE LET i == MaxOf(S) IN Append(PickSeq(pool, S \ {i}), pool[i])

\* one-direction history for automatic detection, not in date order: a
\* stream charged on days 0..90 under two spellings and a second merchant
AutoPool ==
    << Txn(1, 30, DescStreamA, 15, "DEBIT", "Subscriptions"),
       Txn(2, 0, DescStreamA, 15, "DEBIT", "Subscriptions"),
       Txn(3, 7, DescStreamB, 15, "DEBIT", "Subscriptions"),
       Txn(4, 12, DescGym, 40, "DEBIT", "General"),
       Txn(5, 90, DescStreamB, 15, "DEBIT", "Subscriptions"),
       Txn(6, 14, DescStreamA, 15, "DEBIT", "Subscriptions"),
       Txn(7, 0, DescGym, 40, "DEBIT", "General"),
       Txn(8, 21, DescStreamB, 15, "DEBIT", "Subscriptions"),
       Txn(9, 60, DescStreamA, 15, "DEBIT", "Subscriptions"),
       Txn(10, 20, DescGym, 50, "DEBIT", "General"),
       Txn(11, 45, DescStreamB, 15, "DEBIT", "Subscriptions"),
       Txn(12, 6, DescGym, 40, "DEBIT", "General") >>

AutoTodays == {20, 24, 25, 33, 34, 35, 36, 150, 151}

DescSalary == <<"S","a","l","a","r","y"," ","0","1">>
PatternStream == <<"n","f","l","x">>
PatternSalary == <<"s","a","l","a","r","y">>
PatternNever == <<"z","z">>
PatternShort == <<"f","l","x">>
PatternGym == <<"g","y","m">>

\* history given to detection together with rules: the stream (one charge
\* in another category, one of another amount) and a salary
RulePool ==
    << Txn(1, 7, DescStreamB, 15, "DEBIT", "Subscriptions"),
       Txn(2, 0, DescStreamA, 15, "DEBIT", "Subscriptions"),
       Txn(3, 21, DescStreamB, 30, "DEBIT", "Subscriptions"),
       Txn(4, 14, DescStreamA, 15, "DEBIT", "General"),
       Txn(5, 60, DescSalary, 3000, "CREDIT", "Income"),
       Txn(6, 0, DescSalary, 3000, "CREDIT", "Income"),
       Txn(7, 31, DescSalary, 3100, "CREDIT", "Income") >>

Rule(id, type, pattern, category, dayStart, dayEnd, interval, expected, tolerance, useAverage, enabled, isExclude) ==
    [id |-> id, type |-> type, descriptionPattern |-> pattern, category |-> category,
     dayRangeStart |-> dayStart, dayRangeEnd |-> dayEnd, intervalDays |-> interval,
     expectedAmount |-> expected, amountTolerance |-> tolerance,
     useAverage |-> useAverage, enabled |-> enabled, isExclude |-> isExclude]

TenPercent == <<1, 10>>

RulesPool ==
    << Rule("exclStream", "DEBIT", PatternStream, Undefined, 0, 0, 0, 0, <<>>,
            FALSE, TRUE, TRUE),
       Rule("exclEarly", "DEBIT", PatternStream, Undefined, 1, 5, 0, 0, <<>>,
            FALSE, TRUE, TRUE),
       Rule("exclGeneral", "DEBIT", PatternStream, "General", 0, 0, 0, 0, <<>>,
            FALSE, TRUE, TRUE),
       Rule("exclThirty", "DEBIT", PatternStream, Undefined, 0, 0, 0, 30, TenPercent,
            FALSE, TRUE, TRUE),
       Rule("exclNever", "DEBIT", PatternNever, Undefined, 0, 0, 0, 0, <<>>,
            FALSE, TRUE, TRUE),
       Rule("stream", "DEBIT", PatternStream, Undefined, 0, 0, 0, 0, <<>>,
            FALSE, TRUE, FALSE),
       Rule("salary", "CREDIT", PatternSalary, Undefined, 0, 0, 30, 0, <<>>,
            TRUE, TRUE, FALSE),
       Rule("exclOff", "DEBIT", PatternStream, Undefined, 0, 0, 0, 0, <<>>,
            FALSE, FALSE, TRUE),
       Rule("planned", "DEBIT", PatternNever, Undefined, 0, 0, 7, 12, <<>>,
            FALSE, TRUE, FALSE),
       Rule("flx", "DEBIT", PatternShort, Undefined, 0, 0, 0, 0, <<>>,
            FALSE, TRUE, FALSE) >>

RuleTodays == {30, 62}

Entry(description, amount, interval, lastCharged, ruleId) ==
    [description |-> description, category |-> "Subscriptions", amount |-> Rat(amount),
     frequency |-> determineFrequency(Rat(interval)), intervalDays |-> interval,
     lastCharged |-> lastCharged, occurrences |-> 3, transactionIds |-> <<>>,
     isExclude |-> FALSE, ruleId |-> ruleId]

\* recurring entries handed to the projection: a monthly and a weekly
\* automatic entry and two rule-backed ones of different intervals
EntryPool ==
    << Entry(DescStreamA, 100, 30, DateString(0), Undefined),
       Entry(DescGym, 40, 7, DateString(14), Undefined),
       Entry(ManualPrefix \o PatternSalary, 200, 30,
             [day |-> 10, time |-> 14, dateOnly |-> FALSE], "salary"),
       Entry(ManualPrefix \o PatternGym, 50, 7, DateString(20), "gym") >>

StartDays == {14, 30, 31, 59}

DefaultDaysToProject == 90

Horizons == {0, 1, 16, 30, DefaultDaysToProject}

NoBalance == Rat(0)

IdleProjection ==
    /\ currentBalance = NoBalance
    /\ recurringIncomes = <<>>
    /\ recurringExpenses = <<>>
    /\ daysToProject = 0
    /\ startDate = [day |-> 0, time |-> 0]
    /\ forecast = <<>>

NoDetails == [safeToSpend |-> Rat(0), reservedForBills |-> Rat(0), daysUntilPayday |-> 0,
              nextPayday |-> [day |-> 0, time |-> 0, dateOnly |-> FALSE],
              buffer |-> Rat(0), totalBalance |-> Rat(0)]

IdleAnalysis ==
    /\ lowest = Null
    /\ buffer = Rat(0)
    /\ details = NoDetails
    /\ subscriptions = <<>>
    /\ burnRate = Rat(0)
    /\ avgDays = Rat(0)
    /\ frequency = Undefined

IdleText ==
    /\ rawDescription = <<>>
    /\ normalizedDesc = <<>>

\* the application shell before any profile is chosen, nothing stored
IdleShell ==
    /\ activeSession = Undefined
    /\ calls = 0
    /\ rulesState = <<>>
    /\ pendingRules = <<>>
    /\ effects = <<>>
    /\ localStorage = <<>>
    /\ statements = {}
    /\ isLoading = FALSE
    /\ database = <<>>
    /\ pending = <<>>

IdleOther == IdleText /\ IdleShell

InitAuto ==
    /\ pc = "detect"
    /\ \E S \in SUBSET (DOMAIN AutoPool) :
          /\ Cardinality(S) <= MaxTxns
          /\ transactions = PickSeq(AutoPool, S)
    /\ minOccurrences \in 1..3
    /\ manualRules = <<>>
    /\ now \in [day : AutoTodays, time : Times]
    /\ detected = <<>>
    /\ IdleProjection
    /\ IdleAnalysis
    /\ IdleOther

InitRules ==
    /\ pc = "detect"
    /\ \E S \in SUBSET (DOMAIN RulePool) :
          /\ Cardinality(S) <= MaxTxns
          /\ transactions = PickSeq(RulePool, S)
    /\ minOccurrences \in 2..3
    /\ \E R \in SUBSET (DOMAIN RulesPool) :
          /\ Cardinality(R) <= MaxRules
          /\ manualRules = PickSeq(RulesPool, R)
    /\ now \in [day : RuleTodays, time : {14}]
    /\ detected = <<>>
    /\ IdleProjection
    /\ IdleAnalysis
    /\ IdleOther

IdleDetection ==
    /\ transactions = <<>>
    /\ minOccurrences = 2
    /\ manualRules = <<>>
    /\ now = [day |-> 0, time |-> 0]
    /\ detected = <<>>

InitProject ==
    /\ pc = "project"
    /\ currentBalance = Rat(1000)
    /\ \E I \in SUBSET (DOMAIN EntryPool) :
          /\ Cardinality(I) <= MaxEntries - 1
          /\ recurringIncomes = PickSeq(EntryPool, I)
    /\ \E E \in SUBSET (DOMAIN EntryPool) :
          /\ Cardinality(E) <= MaxEntries
          /\ recurringExpenses = PickSeq(EntryPool, E)
    /\ daysToProject \in Horizons
    /\ startDate \in [day : StartDays, time : Times]
    /\ forecast = <<>>
    /\ IdleDetection
    /\ IdleAnalysis
    /\ IdleOther

\* long histories of one weekly charge, newest first: n charges of 100, the
\* oldest and the newest of them varied
HistoryAmount(i, n, oldest, newest) ==
    IF i = n THEN newest ELSE IF i = 1 THEN oldest ELSE 100

\* the i-th transaction of the list is the (n + 1 - i)-th charge
History(n, oldest, newest) ==
    [i \in 1..n |->
        Txn(n + 1 - i, 7 * (n - i), DescStreamA,
            HistoryAmount(n + 1 - i, n, oldest, newest), "DEBIT", "Subscriptions")]

InitHistory ==
    /\ pc = "detect"
    /\ \E n \in 2..MaxHistory, oldest \in {100, 200}, newest \in {100, 101, 150} :
          /\ transactions = History(n, oldest, newest)
          /\ \E late \in {0, 7, 15} : now \in [day : {7 * (n - 1) + late}, time : Times]
    /\ minOccurrences \in 2..3
    /\ manualRules = <<>>
    /\ detected = <<>>
    /\ IdleProjection
    /\ IdleAnalysis
    /\ IdleOther

\* mean gaps handed to determineFrequency: the positive wholes, halves and
\* thirds of a day up to MaxMeanGap days
MeanGaps == UNION {{<<n, d>> : n \in 1..(d * MaxMeanGap)} : d \in 1..3}

InitFrequency ==
    /\ pc = "classify"
    /\ avgDays \in MeanGaps
    /\ frequency = Undefined
    /\ lowest = Null
    /\ buffer = Rat(0)
    /\ details = NoDetails
    /\ subscriptions = <<>>
    /\ burnRate = Rat(0)
    /\ IdleDetection
    /\ IdleProjection
    /\ IdleOther

\* recurring entries handed to identifySubscriptions: housing costs under
\* each keyword, in several spellings, and subscriptions of every frequency
SubscriptionPool ==
    << Entry(<<"N","f","l","x">>, 15, 30, DateString(0), Undefined),
       Entry(<<"R","e","n","t">>, 1200, 30, DateString(0), Undefined),
       Entry(<<"G","y","m">>, 40, 7, DateString(14), Undefined),
       Entry(<<"C","a","r"," ","L","E","A","S","E">>, 250, 30, DateString(0), Undefined),
       Entry(<<"I","n","s","u","r","e">>, 300, 90, DateString(0), Undefined),
       Entry(<<"M","o","r","t","g","a","g","e"," ","1">>, 900, 30, DateString(0), Undefined),
       Entry(<<"N","e","w","s">>, 10, 14, DateString(14), Undefined),
       Entry(<<"M","I","E","T","E">>, 800, 30, DateString(0), Undefined),
       Entry(<<"C","l","u","b">>, 120, 365, DateString(0), Undefined),
       Entry(<<"H","y","p","o","t","h","e","k">>, 700, 90, DateString(0), Undefined) >>

InitSubscriptions ==
    /\ pc = "identify"
    /\ \E S \in SUBSET (DOMAIN SubscriptionPool) :
          /\ Cardinality(S) <= MaxEntries
          /\ detected = PickSeq(SubscriptionPool, S)
    /\ transactions = <<>>
    /\ minOccurrences = 2
    /\ manualRules = <<>>
    /\ now = [day |-> 0, time |-> 0]
    /\ IdleProjection
    /\ IdleAnalysis
    /\ IdleOther

\* histories handed to calculateSafeToSpend, chosen series by series: a
\* monthly salary, a side income every 20 days, a monthly bill, a weekly
\* membership, a bill every 45 days and two purchases on the same day
DescGig == <<"G","i","g">>
DescPower == <<"P","w","r">>
DescInsurance == <<"I","n","s">>
DescCoffee == <<"C","a","f">>
PatternCoffee == <<"c","a","f">>

SeriesPool ==
    << << Txn(1, 30, DescSalary, 3000, "CREDIT", "Income"),
          Txn(2, 60, DescSalary, 3000, "CREDIT", "Income") >>,
       << Txn(3, 20, DescGig, 500, "CREDIT", "Income"),
          Txn(4, 40, DescGig, 500, "CREDIT", "Income"),
          Txn(5, 60, DescGig, 500, "CREDIT", "Income") >>,
       << Txn(6, 30, DescPower, 300, "DEBIT", "Bills"),
          Txn(7, 60, DescPower, 300, "DEBIT", "Bills") >>,
       << Txn(8, 53, DescGym, 40, "DEBIT", "General"),
          Txn(9, 60, DescGym, 40, "DEBIT", "General") >>,
       << Txn(10, 10, DescInsurance, 200, "DEBIT", "Bills"),
          Txn(11, 55, DescInsurance, 200, "DEBIT", "Bills") >>,
       << Txn(12, 58, DescCoffee, 5, "DEBIT", "General"),
          Txn(13, 58, DescCoffee, 6, "DEBIT", "General") >> >>

SafeRulesPool ==
    << Rule("coffee", "DEBIT", PatternCoffee, Undefined, 0, 0, 0, 0, <<>>, TRUE, TRUE, FALSE),
       Rule("gymOff", "DEBIT", PatternGym, Undefined, 0, 0, 0, 0, <<>>, FALSE, TRUE, TRUE),
       Rule("pay", "CREDIT", PatternSalary, Undefined, 0, 0, 30, 3000, <<>>, FALSE, TRUE, FALSE) >>

SafeTodays == {60, 62, 90}

Balances == {Rat(2000), Rat(700), Rat(0 - 50)}

DefaultBuffer == 500

Buffers == {Rat(DefaultBuffer), Rat(0)}

InitSafe ==
    /\ pc = "calculate"
    /\ \E S \in SUBSET (DOMAIN SeriesPool) :
          /\ Cardinality(S) <= MaxSeries
          /\ transactions = Flatten(PickSeq(SeriesPool, S))
    /\ minOccurrences = 2
    /\ \E R \in SUBSET (DOMAIN SafeRulesPool) :
          /\ Cardinality(R) <= MaxRules
          /\ manualRules = PickSeq(SafeRulesPool, R)
    /\ now \in [day : SafeTodays, time : Times]
    /\ detected = <<>>
    /\ currentBalance \in Balances
    /\ recurringIncomes = <<>>
    /\ recurringExpenses = <<>>
    /\ daysToProject = 0
    /\ startDate = [day |-> 0, time |-> 0]
    /\ forecast = <<>>
    /\ lowest = Null
    /\ buffer \in Buffers
    /\ details = NoDetails
    /\ subscriptions = <<>>
    /\ burnRate = Rat(0)
    /\ avgDays = Rat(0)
    /\ frequency = Undefined
    /\ IdleOther

\* forecasts handed to findLowestLiquidityPoint: up to MaxPoints consecutive
\* days from 31 January 2024, every day on one of three balance levels
BalanceLevels == {Rat(900), Rat(1000), Rat(1100)}

ForecastPoint(i, balance) ==
    [date |-> Civil(30 + i - 1), projectedBalance |-> balance, event |-> <<>>]

GivenForecasts ==
    UNION {{[i \in 1..n |-> ForecastPoint(i, b[i])] : b \in [1..n -> BalanceLevels]} : n \in 0..MaxPoints}

InitLowest ==
    /\ pc = "forecast"
    /\ forecast \in GivenForecasts
    /\ currentBalance = NoBalance
    /\ recurringIncomes = <<>>
    /\ recurringExpenses = <<>>
    /\ daysToProject = 0
    /\ startDate = [day |-> 0, time |-> 0]
    /\ IdleDetection
    /\ IdleAnalysis
    /\ IdleOther

\* histories of one charge whose consecutive gaps are each a base gap or one
\* day more, the base gaps lying in and at the upper end of the bands; alone,
\* under a rule declaring no interval, or under a rule declaring 30 days
BaseGaps == {7, 9, 16, 30, 35, 100}

GapLists == UNION {UNION {[1..n -> {g, g + 1}] : n \in 1..(MaxTxns - 1)} : g \in BaseGaps}

Spaced(gaps) ==
    [i \in 1..(Len(gaps) + 1) |->
        Txn(i, SumSeq(SubSeq(gaps, 1, i - 1)), DescStreamA, 15, "DEBIT", "Subscriptions")]

GapRules ==
    { <<>>,
      << Rule("stream", "DEBIT", PatternStream, Undefined, 0, 0, 0, 0, <<>>,
              FALSE, TRUE, FALSE) >>,
      << Rule("monthly", "DEBIT", PatternStream, Undefined, 0, 0, 30, 0, <<>>,
              FALSE, TRUE, FALSE) >> }

InitGaps ==
    /\ pc = "detect"
    /\ \E gaps \in GapLists :
          /\ transactions = Spaced(gaps)
          /\ \E late \in {0, 5} : now = [day |-> SumSeq(gaps) + late, time |-> 0]
    /\ minOccurrences \in 2..3
    /\ manualRules \in GapRules
    /\ detected = <<>>
    /\ IdleProjection
    /\ IdleAnalysis
    /\ IdleOther

\* descriptions handed to normalizeDescription: up to two characters, a run
\* of one letter around the length limit, and up to two characters more
DescriptionAlphabet == {"A", "b", "7", "-", "_", " ", "."}

Affixes == UNION {[1..n -> DescriptionAlphabet] : n \in 0..2}

Fill(n) == [i \in 1..n |-> "x"]

FillLengths == {0} \cup ((MaxFill - 2)..MaxFill)

InitNormalize ==
    /\ pc = "normalize"
    /\ \E u \in Affixes, n \in FillLengths, w \in Affixes :
          rawDescription = u \o Fill(n) \o w
    /\ normalizedDesc = <<>>
    /\ IdleDetection
    /\ IdleProjection
    /\ IdleAnalysis
    /\ IdleShell

----------------------------------------------------------------------------
(* Operations *)

\* one call of detectRecurringTransactions(transactions, minOccurrences, manualRules)
DetectRecurring ==
    /\ pc = "detect"
    /\ detected' = detectRecurringTransactions(transactions, minOccurrences, manualRules, now)
    /\ pc' = "detected"
    /\ UNCHANGED <<transactions, minOccurrences, manualRules, now, currentBalance,
                   recurringIncomes, recurringExpenses, daysToProject, startDate, forecast,
                   analysisVars,
                   otherVars>>

\* one call of projectLiquidity(currentBalance, incomes, expenses, days, startDate)
ProjectLiquidity ==
    /\ pc = "project"
    /\ forecast' = projectLiquidity(currentBalance, recurringIncomes, recurringExpenses,
                                    daysToProject, startDate)
    /\ pc' = "projected"
    /\ UNCHANGED <<transactions, minOccurrences, manualRules, now, detected,
                   currentBalance, recurringIncomes, recurringExpenses, daysToProject,
                   startDate, analysisVars,
                   otherVars>>

\* one call of findLowestLiquidityPoint(forecast)
FindLowestLiquidityPoint ==
    /\ pc = "forecast"
    /\ lowest' = findLowestLiquidityPoint(forecast)
    /\ pc' = "lowest"
    /\ UNCHANGED <<transactions, minOccurrences, manualRules, now, detected,
                   currentBalance, recurringIncomes, recurringExpenses, daysToProject,
                   startDate, forecast, buffer, details, subscriptions, burnRate,
                   avgDays, frequency,
                   otherVars>>

\* one call of calculateSafeToSpend(currentBalance, transactions, manualRules, buffer);
\* a call whose while loop cannot end stays in "calculating" and returns nothing
CalculateSafeToSpend ==
    /\ pc = "calculate"
    /\ recurringIncomes' =
           detectRecurringTransactions(creditsOf(transactions), minOccurrences, manualRules, now)
    /\ recurringExpenses' =
           detectRecurringTransactions(debitsOf(transactions), minOccurrences, manualRules, now)
    /\ IF safeToSpendReturns(recurringIncomes', recurringExpenses', now)
       THEN /\ details' = safeToSpendDetails(currentBalance, recurringIncomes',
                                             recurringExpenses', buffer, now)
            /\ pc' = "calculated"
       ELSE /\ details' = details
            /\ pc' = "calculating"
    /\ UNCHANGED <<transactions, minOccurrences, manualRules, now, detected, currentBalance,
                   daysToProject, startDate, forecast, lowest, buffer, subscriptions,
                   burnRate, avgDays, frequency,
                   otherVars>>

\* one call of identifySubscriptions(recurring)
IdentifySubscriptions ==
    /\ pc = "identify"
    /\ subscriptions' = identifySubscriptions(detected)
    /\ pc' = "identified"
    /\ UNCHANGED <<transactions, minOccurrences, manualRules, now, detected, currentBalance,
                   recurringIncomes, recurringExpenses, daysToProject, startDate, forecast,
                   lowest, buffer, details, burnRate, avgDays, frequency,
                   otherVars>>

\* one call of calculateSubscriptionBurnRate(subscriptions)
CalculateSubscriptionBurnRate ==
    /\ pc = "identified"
    /\ burnRate' = calculateSubscriptionBurnRate(subscriptions)
    /\ pc' = "summed"
    /\ UNCHANGED <<transactions, minOccurrences, manualRules, now, detected, currentBalance,
                   recurringIncomes, recurringExpenses, daysToProject, startDate, forecast,
                   lowest, buffer, details, subscriptions, avgDays, frequency,
                   otherVars>>

\* one call of determineFrequency(avgDays)
DetermineFrequency ==
    /\ pc = "classify"
    /\ frequency' = determineFrequency(avgDays)
    /\ pc' = "classified"
    /\ UNCHANGED <<transactions, minOccurrences, manualRules, now, detected, currentBalance,
                   recurringIncomes, recurringExpenses, daysToProject, startDate, forecast,
                   lowest, buffer, details, subscriptions, burnRate, avgDays,
                   otherVars>>

\* one call of normalizeDescription(description)
NormalizeDescription ==
    /\ pc = "normalize"
    /\ normalizedDesc' = normalizeDescription(rawDescription)
    /\ pc' = "normalized"
    /\ UNCHANGED <<engineVars, analysisVars, rawDescription, shellVars>>

NextDetect == DetectRecurring

NextProject == ProjectLiquidity

SpecAuto == InitAuto /\ [][NextDetect]_vars

SpecRules == InitRules /\ [][NextDetect]_vars

SpecHistory == InitHistory /\ [][NextDetect]_vars

SpecGaps == InitGaps /\ [][NextDetect]_vars

SpecProject == InitProject /\ [][NextProject]_vars

NextSubscriptions == IdentifySubscriptions \/ CalculateSubscriptionBurnRate

SpecSubscriptions == InitSubscriptions /\ [][NextSubscriptions]_vars

NextFrequency == DetermineFrequency

SpecFrequency == InitFrequency /\ [][NextFrequency]_vars

NextSafe == CalculateSafeToSpend

SpecSafe == InitSafe /\ [][NextSafe]_vars

NextLowest == FindLowestLiquidityPoint

SpecLowest == InitLowest /\ [][NextLowest]_vars

NextNormalize == NormalizeDescription

SpecNormalize == InitNormalize /\ [][NextNormalize]_vars

----------------------------------------------------------------------------
(* useSession and useRecurringRulesManager.  A render commits, then its    *)
(* effects run in the order they are declared, each with the values of     *)
(* that render; a setRules call queues an update that the next render      *)
(* applies.  User actions reach the hook between settled states.           *)

\* the profiles useSession holds; no active session is Undefined
Sessions == {"s1", "s2"}

\* crypto.randomUUID(): the ids not handed out yet
RuleIds == {"u1", "u2", "u3"}

\* JSON.stringify and JSON.parse of a rule list: an item of localStorage is
\* <<list>>, a missing item (getItem returning null) is <<>>; rule objects
\* hold strings, numbers and booleans only, which the round trip keeps
stringify(list) == <<list>>

parse(item) == item[1]

getItem(sessionId_) == localStorage[sessionId_]

\* the rule the modal hands to addRule, with the id and enabled flag added
newRuleOf(id) ==
    Rule(id, "DEBIT", PatternStream, Undefined, 0, 0, 0, 0, <<>>, FALSE, TRUE, FALSE)

usedRuleIds ==
    {rulesState[i].id : i \in DOMAIN rulesState}
        \cup UNION {IF localStorage[s] = <<>> THEN {}
                    ELSE {parse(localStorage[s])[i].id : i \in DOMAIN parse(localStorage[s])}
                    : s \in Sessions}

\* the argument of setRules in the load effect
loadedRules(sessionId_) ==
    IF sessionId_ = Undefined THEN <<>>
    ELSE IF getItem(sessionId_) # <<>> THEN parse(getItem(sessionId_))
    ELSE <<>>

\* no effect left to run and no update queued
ManagerSettled == effects = <<>> /\ pendingRules = <<>>

\* what was stored for the profiles before the application starts
StoredAtStart ==
    [s1 : {<<>>, stringify(<<>>), stringify(<<newRuleOf("u1")>>)},
     s2 : {<<>>, stringify(<<>>), stringify(<<newRuleOf("u2")>>)}]

InitManager ==
    /\ pc = "shell"
    /\ activeSession = Undefined
    /\ calls = 0
    /\ rulesState = <<>>
    /\ pendingRules = <<>>
    /\ effects = <<>>
    /\ localStorage \in StoredAtStart
    /\ statements = {}
    /\ isLoading = FALSE
    /\ database = <<>>
    /\ pending = <<>>
    /\ IdleDetection
    /\ IdleProjection
    /\ IdleAnalysis
    /\ IdleText

\* switchSession: a profile is chosen, or left by switchSession(''); the
\* hook renders with the new sessionId and both effects are due
ChangeSessionId(s) ==
    /\ ManagerSettled
    /\ calls < MaxCalls
    /\ (activeSession = Undefined) # (s = Undefined)
    /\ activeSession' = s
    /\ calls' = calls + 1
    /\ effects' = <<"load", "save">>
    /\ UNCHANGED <<pc, rulesState, pendingRules, localStorage, engineVars, analysisVars,
                   textVars, appVars>>

\* the effect `Load rules when sessionId changes`
LoadRulesEffect ==
    /\ effects # <<>>
    /\ Head(effects) = "load"
    /\ pendingRules' = <<loadedRules(activeSession)>>
    /\ effects' = Tail(effects)
    /\ UNCHANGED <<pc, activeSession, calls, rulesState, localStorage, engineVars,
                   analysisVars, textVars, appVars>>

\* the effect `Save rules when they change`, with the rules of its render
SaveRulesEffect ==
    /\ effects # <<>>
    /\ Head(effects) = "save"
    /\ localStorage' = IF activeSession = Undefined THEN localStorage
                       ELSE [localStorage EXCEPT ![activeSession] = stringify(rulesState)]
    /\ effects' = Tail(effects)
    /\ UNCHANGED <<pc, activeSession, calls, rulesState, pendingRules, engineVars,
                   analysisVars, textVars, appVars>>

\* the render that applies the queued setRules: rules changed, so the save
\* effect is due again
RenderRules ==
    /\ effects = <<>>
    /\ pendingRules # <<>>
    /\ rulesState' = pendingRules[1]
    /\ pendingRules' = <<>>
    /\ effects' = <<"save">>
    /\ UNCHANGED <<pc, activeSession, calls, localStorage, engineVars, analysisVars,
                   textVars, appVars>>

\* a callback of the hook and the render that follows it
SetRules(next) ==
    /\ ManagerSettled
    /\ activeSession # Undefined
    /\ calls < MaxCalls
    /\ rulesState' = next
    /\ calls' = calls + 1
    /\ effects' = <<"save">>
    /\ UNCHANGED <<pc, activeSession, pendingRules, localStorage, engineVars, analysisVars,
                   textVars, appVars>>

AddRule == \E id \in RuleIds \ usedRuleIds : SetRules(Append(rulesState, newRuleOf(id)))

UpdateRule ==
    \E k \in DOMAIN rulesState :
        SetRules([i \in DOMAIN rulesState |->
                     IF rulesState[i].id = rulesState[k].id
                     THEN [rulesState[i] EXCEPT !.intervalDays = 7] ELSE rulesState[i]])

RemoveRule ==
    \E k \in DOMAIN rulesState :
        SetRules(SelectSeq(rulesState, LAMBDA r : r.id # rulesState[k].id))

ToggleRule ==
    \E k \in DOMAIN rulesState :
        SetRules([i \in DOMAIN rulesState |->
                     IF rulesState[i].id = rulesState[k].id
                     THEN [rulesState[i] EXCEPT !.enabled = ~rulesState[i].enabled]
                     ELSE rulesState[i]])

NextManager ==
    \/ \E s \in Sessions \cup {Undefined} : ChangeSessionId(s)
    \/ LoadRulesEffect
    \/ SaveRulesEffect
    \/ RenderRules
    \/ AddRule
    \/ UpdateRule
    \/ RemoveRule
    \/ ToggleRule

SpecManager == InitManager /\ [][NextManager]_vars

----------------------------------------------------------------------------
(* App and DatabaseService.  A handler runs up to its first await; what    *)
(* follows an await runs when the awaited call completes, with the         *)
(* activeSession of the render that started the handler.  The transactions *)
(* of the one object store complete in the order they were created.        *)

Months == {1, 2}

\* the transactions stored for a month; Absent when the month has no record
Absent == "none"

\* the files a user imports: one month of transactions each, or no CSV
Files == {[month |-> 1, content |-> "b"], [month |-> 2, content |-> "a"], [month |-> 0, content |-> "bad"]}

NoRecords == [m \in Months |-> Absent]

\* the records of the profiles before the application starts
DatabaseAtStart == [Sessions -> {NoRecords, [NoRecords EXCEPT ![1] = "a"]}]

\* createSyntheticStatement: the statement stored for a month of a session
createSyntheticStatement(sessionId_, month, txs) ==
    [id |-> <<"synthetic", sessionId_, month>>, transactions |-> txs]

\* loadSessionData: the statements of all records of the session
loadSessionData(sessionId_) ==
    {createSyntheticStatement(sessionId_, m, database[sessionId_][m]) :
        m \in {k \in Months : database[sessionId_][k] # Absent}}

Call(kind, sessionId_, stage, file) ==
    [kind |-> kind, session |-> sessionId_, stage |-> stage, file |-> file]

NoFile == [month |-> 0, content |-> Absent]

\* the calls whose database transaction exists, oldest first
OnDatabase == SelectSeq(pending, LAMBDA c : c.stage # "parse")

Without(k) == [i \in 1..(Len(pending) - 1) |-> IF i < k THEN pending[i] ELSE pending[i + 1]]

\* the position in pending of the transaction that completes next
NextOnDatabase == CHOOSE k \in DOMAIN pending : pending[k] = OnDatabase[1] /\ \A j \in 1..(k - 1) : pending[j].stage = "parse"

InitApp ==
    /\ pc = "shell"
    /\ activeSession = Undefined
    /\ calls = 0
    /\ statements = {}
    /\ isLoading = FALSE
    /\ database \in DatabaseAtStart
    /\ pending = <<>>
    /\ rulesState = <<>>
    /\ pendingRules = <<>>
    /\ effects = <<>>
    /\ localStorage = <<>>
    /\ IdleDetection
    /\ IdleProjection
    /\ IdleAnalysis
    /\ IdleText

\* switchSession and the effect `Load session data when active session
\* changes` of the render that follows
SwitchSession(s) ==
    /\ calls < MaxCalls
    /\ (activeSession = Undefined) # (s = Undefined)
    /\ activeSession' = s
    /\ calls' = calls + 1
    /\ IF s # Undefined
       THEN /\ isLoading' = TRUE
            /\ pending' = Append(pending, Call("load", s, "load", NoFile))
            /\ UNCHANGED statements
       ELSE /\ statements' = {}
            /\ UNCHANGED <<isLoading, pending>>
    /\ UNCHANGED <<pc, database, engineVars, analysisVars, textVars, managerVars>>

\* handleFilesDropped up to `await Promise.all(files.map(parseBankCSV))`
HandleFilesDropped(file) ==
    /\ activeSession # Undefined
    /\ calls < MaxCalls
    /\ statements # {} \/ ~isLoading
    /\ calls' = calls + 1
    /\ isLoading' = TRUE
    /\ pending' = Append(pending, Call("import", activeSession, "parse", file))
    /\ UNCHANGED <<pc, activeSession, statements, database, engineVars, analysisVars,
                   textVars, managerVars>>

\* the files are parsed: saveStatements opens its transaction; a file that
\* is no CSV rejects, and the handler ends in catch and finally
ParseBankCSVDone ==
    \E k \in DOMAIN pending :
        /\ pending[k].stage = "parse"
        /\ IF pending[k].file.content = "bad"
           THEN /\ pending' = Without(k)
                /\ isLoading' = FALSE
           ELSE /\ pending' = Append(Without(k), [pending[k] EXCEPT !.stage = "save"])
                /\ UNCHANGED isLoading
        /\ UNCHANGED <<pc, activeSession, calls, statements, database, engineVars,
                       analysisVars, textVars, managerVars>>

\* saveStatements completes: the record of the month is put, and the
\* handler goes on to loadSessionData
SaveStatementsDone ==
    /\ OnDatabase # <<>>
    /\ OnDatabase[1].stage = "save"
    /\ database' = [database EXCEPT ![OnDatabase[1].session][OnDatabase[1].file.month] = OnDatabase[1].file.content]
    /\ pending' = Append(Without(NextOnDatabase), [OnDatabase[1] EXCEPT !.stage = "load"])
    /\ UNCHANGED <<pc, activeSession, calls, statements, isLoading, engineVars,
                   analysisVars, textVars, managerVars>>

\* loadSessionData completes, in the effect or in handleFilesDropped:
\* setStatements(data), then setIsLoading(false)
LoadSessionDataDone ==
    /\ OnDatabase # <<>>
    /\ OnDatabase[1].stage = "load"
    /\ statements' = loadSessionData(OnDatabase[1].session)
    /\ isLoading' = FALSE
    /\ pending' = Without(NextOnDatabase)
    /\ UNCHANGED <<pc, activeSession, calls, database, engineVars, analysisVars,
                   textVars, managerVars>>

\* handleEraseData up to `await dbService.deleteSessionData`
HandleEraseData ==
    /\ activeSession # Undefined
    /\ calls < MaxCalls
    /\ calls' = calls + 1
    /\ pending' = Append(pending, Call("erase", activeSession, "delete", NoFile))
    /\ UNCHANGED <<pc, activeSession, statements, isLoading, database, engineVars,
                   analysisVars, textVars, managerVars>>

\* deleteSessionData completes: the records of the session are gone, and
\* the handler calls setStatements([])
DeleteSessionDataDone ==
    /\ OnDatabase # <<>>
    /\ OnDatabase[1].stage = "delete"
    /\ database' = [database EXCEPT ![OnDatabase[1].session] = NoRecords]
    /\ statements' = {}
    /\ pending' = Without(NextOnDatabase)
    /\ UNCHANGED <<pc, activeSession, calls, isLoading, engineVars, analysisVars,
                   textVars, managerVars>>

NextApp ==
    \/ \E s \in Sessions \cup {Undefined} : SwitchSession(s)
    \/ \E file \in Files : HandleFilesDropped(file)
    \/ ParseBankCSVDone
    \/ SaveStatementsDone
    \/ LoadSessionDataDone
    \/ HandleEraseData
    \/ DeleteSessionDataDone

SpecApp == InitApp /\ [][NextApp]_vars

(* Vocabulary of the properties: description groups of the input, read     *)
(* off the input list as sets *)

Returned == pc = "detected"

GroupKeys == {normalizeDescription(transactions[i].description) : i \in DOMAIN transactions}

\* the transactions of the input that share a normalized description
Group(key) ==
    {transactions[i] : i \in {j \in DOMAIN transactions :
        normalizeDescription(transactions[j].description) = key}}

GroupDays(G) == {t.tradeDate.day : t \in G}

GroupIds(G) == {t.id : t \in G}

FirstDay(G) == MinOf(GroupDays(G))

LastDay(G) == MaxOf(GroupDays(G))

\* consecutive transactions of G are exactly d days apart
HasConstantGap(G, d) ==
    /\ Cardinality(GroupDays(G)) = Cardinality(G)
    /\ \A x \in GroupDays(G) : x = FirstDay(G) \/ (x - d) \in GroupDays(G)

HasConstantAmount(G) == Cardinality({t.amount : t \in G}) = 1

\* the day-gaps between consecutive transactions of G, as a set of
\* <<day, gap to the previous transaction>>
GapsOf(G) ==
    {<<x, x - MaxOf({y \in GroupDays(G) : y < x})>> :
        x \in {z \in GroupDays(G) : z # FirstDay(G)}}

GapCount(G) == Cardinality(G) - 1

GapSum(G) == LastDay(G) - FirstDay(G)

AutomaticEntries == {i \in DOMAIN detected : detected[i].ruleId = Undefined}

\* the automatic entries built from transactions of G
AutomaticEntriesOf(G) ==
    {i \in AutomaticEntries : Range(detected[i].transactionIds) \cap GroupIds(G) # {}}

EntriesOf(G) ==
    {i \in DOMAIN detected : Range(detected[i].transactionIds) \cap GroupIds(G) # {}}

BandOf(d) ==
    IF d <= 9 THEN "weekly" ELSE IF d <= 16 THEN "bi-weekly"
    ELSE IF d <= 35 THEN "monthly" ELSE IF d <= 100 THEN "quarterly" ELSE "yearly"

\* the gap d of a group whose consecutive transactions are equally spaced
GapOf(G) == GapSum(G) \div GapCount(G)

\* a group the first property speaks of: two or more transactions, a
\* constant gap of d >= 1 days, one amount, and at least minOccurrences long
RegularGroup(G) ==
    /\ Cardinality(G) >= 2
    /\ Cardinality(G) >= minOccurrences
    /\ GapOf(G) >= 1
    /\ HasConstantGap(G, GapOf(G))
    /\ HasConstantAmount(G)

OneEntryWithInterval(G, d) ==
    /\ Cardinality(EntriesOf(G)) = 1
    /\ \A i \in EntriesOf(G) :
          /\ detected[i].intervalDays = d
          /\ detected[i].frequency = BandOf(d)
          /\ Range(detected[i].transactionIds) = GroupIds(G)

\* C1 as stated: every regular group yields exactly one entry with
\* intervalDays = d and the frequency of d's band, whatever today is.
C1_AnyToday ==
    Returned =>
        \A key \in GroupKeys :
            LET G == Group(key)
            IN RegularGroup(G) => OneEntryWithInterval(G, GapOf(G))

\* C1 amended: every regular group whose last transaction is at most 2 x d
\* days before today yields exactly one entry with intervalDays = d and the
\* frequency of d's band.
C1_RegularGroupDetected ==
    Returned =>
        \A key \in GroupKeys :
            LET G == Group(key)
            IN (RegularGroup(G) /\ now.day - LastDay(G) <= 2 * GapOf(G))
                    => OneEntryWithInterval(G, GapOf(G))

\* a monthly group of three, detected next to a second group
C1_Witness ==
    /\ Returned
    /\ Cardinality(GroupKeys) = 2
    /\ \E key \in GroupKeys :
          LET G == Group(key)
          IN /\ RegularGroup(G)
             /\ Cardinality(G) = 3
             /\ GapOf(G) = 30
             /\ now.day - LastDay(G) <= 60
             /\ OneEntryWithInterval(G, 30)

\* some gap of G deviates from the mean gap by 20% or more:
\* |gap - mean| / mean >= 1/5 with mean = GapSum / GapCount
HasDeviatingGap(G) ==
    /\ Cardinality(G) >= 2
    /\ GapSum(G) > 0
    /\ \E g \in GapsOf(G) : 5 * Abs(g[2] * GapCount(G) - GapSum(G)) >= GapSum(G)

\* C2: a group with a gap deviating from the mean gap by 20% or more
\* (boundary included) never yields an automatic entry.
C2_DeviatingGroupRejected ==
    Returned =>
        \A key \in GroupKeys :
            LET G == Group(key)
            IN HasDeviatingGap(G) => AutomaticEntriesOf(G) = {}

\* the group passes the size and interval checks of the detector
PassesIntervalChecks(G) ==
    /\ Cardinality(G) >= minOccurrences
    /\ Cardinality(G) >= 2
    /\ Cardinality(GroupDays(G)) = Cardinality(G)
    /\ isConsistent(intervalsOf(sortByTradeDate(PickSeq(transactions,
            {j \in DOMAIN transactions : transactions[j] \in G}))))

\* more than 2 x mean gap calendar days lie between the last transaction
\* of G and today
IsStaleGroup(G) == (now.day - LastDay(G)) * GapCount(G) > 2 * GapSum(G)

\* C3: a group passing the other checks is dropped exactly when its last
\* transaction is more than 2 x mean gap days old; at exactly 2 x mean gap
\* it is kept.
C3_StaleExactlyBeyondTwiceMean ==
    Returned =>
        \A key \in GroupKeys :
            LET G == Group(key)
            IN PassesIntervalChecks(G) =>
                    (AutomaticEntriesOf(G) = {} <=> IsStaleGroup(G))

\* a group last seen exactly 2 x mean gap days ago is kept, next to a
\* group one day staler than its own limit that is dropped
C3_Witness ==
    /\ Returned
    /\ \E key \in GroupKeys :
          LET G == Group(key)
          IN /\ PassesIntervalChecks(G)
             /\ (now.day - LastDay(G)) * GapCount(G) = 2 * GapSum(G)
             /\ AutomaticEntriesOf(G) # {}
    /\ \E key \in GroupKeys :
          LET G == Group(key)
          IN /\ PassesIntervalChecks(G)
             /\ (now.day - LastDay(G)) * GapCount(G) = 2 * GapSum(G) + GapCount(G)
             /\ AutomaticEntriesOf(G) = {}

----------------------------------------------------------------------------
(* Properties of the merge of manual and automatic results *)

EnabledRules == {manualRules[i] : i \in {j \in DOMAIN manualRules : manualRules[j].enabled}}

MatchedByAnyRule(t) == \E r \in EnabledRules : ruleMatches(t, r)

\* C4: a transaction matched by an enabled rule, exclusion or not, is in
\* the transactionIds of no automatic entry.
C4_MatchedNeverAutomatic ==
    Returned =>
        \A i \in DOMAIN transactions :
            MatchedByAnyRule(transactions[i]) =>
                \A e \in AutomaticEntries :
                    transactions[i].id \notin Range(detected[e].transactionIds)

\* an exclusion rule and another rule each took a transaction of a group
\* whose remainder still makes an automatic entry
C4_Witness ==
    /\ Returned
    /\ \E key \in GroupKeys :
          LET G == Group(key)
          IN /\ \E r \in EnabledRules : r.isExclude /\ \E t \in G : ruleMatches(t, r)
             /\ AutomaticEntriesOf(G) # {}
             /\ \E t \in G : MatchedByAnyRule(t)
             /\ \E e \in AutomaticEntriesOf(G) :
                    Cardinality(Range(detected[e].transactionIds)) < Cardinality(G)

\* C5: the output holds no entry carrying the id of an enabled exclusion
\* rule, whether the rule matched or not.
C5_NoEntryOfExclusionRule ==
    Returned =>
        \A r \in EnabledRules :
            r.isExclude => \A i \in DOMAIN detected : detected[i].ruleId # r.id

\* C6 as stated: an enabled exclusion rule matching at least one
\* transaction of a group leaves no automatic entry for that group.
C6_AnyMatchSuppressesGroup ==
    Returned =>
        \A key \in GroupKeys : \A r \in EnabledRules :
            LET G == Group(key)
            IN (r.isExclude /\ \E t \in G : ruleMatches(t, r))
                    => AutomaticEntriesOf(G) = {}

\* C6 amended: an enabled exclusion rule matching every transaction of a
\* group leaves no automatic entry for that group; after a partial match
\* an automatic entry of the group holds exactly the transactions of the
\* group that no enabled rule matched.
C6_FullMatchSuppressesGroup ==
    Returned =>
        \A key \in GroupKeys :
            LET G == Group(key)
            IN /\ \A r \in EnabledRules :
                    (r.isExclude /\ \A t \in G : ruleMatches(t, r))
                        => AutomaticEntriesOf(G) = {}
               /\ \A e \in AutomaticEntriesOf(G) :
                    Range(detected[e].transactionIds)
                        = {t.id : t \in {u \in G : ~MatchedByAnyRule(u)}}

\* a regular, fresh group that would be detected, wholly matched by an
\* exclusion rule and absent from the output
C6_Witness ==
    /\ Returned
    /\ \E key \in GroupKeys :
          LET G == Group(key)
          IN /\ Cardinality(G) >= 3
             /\ Cardinality(G) >= minOccurrences
             /\ HasConstantGap(G, GapOf(G))
             /\ now.day - LastDay(G) <= 2 * GapOf(G)
             /\ \E r \in EnabledRules : r.isExclude /\ \A t \in G : ruleMatches(t, r)
             /\ EntriesOf(G) = {}

----------------------------------------------------------------------------
(* Properties of the liquidity projection *)

Projected == pc = "projected"

AllEntries == Range(recurringIncomes) \cup Range(recurringExpenses)

\* the calendar days L + n x i, n >= 1, of an automatic entry up to a day
OccurrenceDays(entry, upTo) ==
    {entry.lastCharged.day + n * entry.intervalDays :
        n \in 1..((upTo - entry.lastCharged.day) \div entry.intervalDays)}

OneAutomaticExpense ==
    /\ recurringIncomes = <<>>
    /\ Len(recurringExpenses) = 1
    /\ recurringExpenses[1].ruleId = Undefined
    /\ recurringExpenses[1].intervalDays >= 1

\* C7: with no incomes and one automatic expense the balance of day k is
\* the starting balance minus the amount times the number of occurrence
\* days L + n x i, n >= 1, within [startDate, startDate + k].
C7_BalanceDropsOnOccurrences ==
    (Projected /\ OneAutomaticExpense) =>
        \A k \in 0..daysToProject :
            LET e == recurringExpenses[1]
                hits == {x \in OccurrenceDays(e, startDate.day + k) : x >= startDate.day}
            IN /\ k + 1 \in DOMAIN forecast
               /\ RatEq(forecast[k + 1].projectedBalance,
                        RatSub(currentBalance,
                               <<e.amount[1] * Cardinality(hits), e.amount[2]>>))

IsMonthEnd(c) == c.date = DaysInMonth(c.year, c.month)

\* c2 is the calendar day after c1
IsNextDay(c1, c2) ==
    IF ~IsMonthEnd(c1)
    THEN c2 = [c1 EXCEPT !.date = c1.date + 1]
    ELSE IF c1.month < 12
         THEN c2 = [year |-> c1.year, month |-> c1.month + 1, date |-> 1]
         ELSE c2 = [year |-> c1.year + 1, month |-> 1, date |-> 1]

\* C8: the forecast has daysToProject + 1 points, the first dated the
\* start day and each next one dated the following calendar day.
C8_OnePointPerDay ==
    Projected =>
        /\ Len(forecast) = daysToProject + 1
        /\ forecast[1].date = Civil(startDate.day)
        /\ \A k \in 1..daysToProject : IsNextDay(forecast[k].date, forecast[k + 1].date)

\* a 91-point forecast that runs over a month end and the end of February
C8_Witness ==
    /\ Projected
    /\ daysToProject = 90
    /\ Len(forecast) = 91
    /\ forecast[1].date = [year |-> 2024, month |-> 1, date |-> 31]
    /\ forecast[31].date = [year |-> 2024, month |-> 3, date |-> 1]
    /\ AllEntries # {}

FallsOnStartDay(entry) ==
    IF entry.ruleId # Undefined THEN IsMonthEnd(Civil(startDate.day))
    ELSE startDate.day \in OccurrenceDays(entry, startDate.day)

C10_NoTimeOfDayDependency ==
    Projected =>
        forecast = projectLiquidity(currentBalance, recurringIncomes, recurringExpenses,
                                    daysToProject, [startDate EXCEPT !.time = 0])

----------------------------------------------------------------------------
(* Properties of findLowestLiquidityPoint *)

LowestFound == pc = "lowest"

\* the indices of the forecast whose balance no other point undercuts
MinimumIndices ==
    {i \in DOMAIN forecast :
        \A j \in DOMAIN forecast :
            ~RatLess(forecast[j].projectedBalance, forecast[i].projectedBalance)}

\* C11: null for an empty forecast; otherwise the earliest of the points
\* that carry the minimum projected balance.
C11_LowestIsEarliestMinimum ==
    LowestFound =>
        IF forecast = <<>> THEN lowest = Null
        ELSE /\ MinimumIndices # {}
             /\ lowest = forecast[MinOf(MinimumIndices)]

\* the minimum is shared by a later point and is not on the first day
C11_Witness ==
    /\ LowestFound
    /\ Cardinality(MinimumIndices) >= 2
    /\ MinOf(MinimumIndices) > 1
    /\ lowest = forecast[MinOf(MinimumIndices)]
    /\ lowest # forecast[MaxOf(MinimumIndices)]

\* the balance never increases from one day to the next
NonIncreasing ==
    \A i \in 1..(Len(forecast) - 1) :
        ~RatLess(forecast[i].projectedBalance, forecast[i + 1].projectedBalance)

FinalBalance == forecast[Len(forecast)].projectedBalance

\* C12 as stated: on a forecast that never increases the lowest point is
\* the final point.
C12_NonIncreasingGivesFinalPoint ==
    (LowestFound /\ forecast # <<>> /\ NonIncreasing) => lowest = forecast[Len(forecast)]

\* C12 amended: on a forecast that never increases the lowest point is the
\* earliest point carrying the final balance; it is the final point exactly
\* when the final day is strictly below the day before it (or is alone).
C12_NonIncreasingGivesFirstOfFinalBalance ==
    (LowestFound /\ forecast # <<>> /\ NonIncreasing) =>
        LET n == Len(forecast)
            first == MinOf({i \in 1..n : RatEq(forecast[i].projectedBalance, FinalBalance)})
        IN /\ lowest = forecast[first]
           /\ (lowest = forecast[n]) <=>
                  (n = 1 \/ RatLess(FinalBalance, forecast[n - 1].projectedBalance))

\* a forecast that falls and then stays flat to its end: the lowest point
\* is the day of the last fall, not the final day
C12_Witness ==
    /\ LowestFound
    /\ Len(forecast) >= 3
    /\ NonIncreasing
    /\ RatLess(FinalBalance, forecast[1].projectedBalance)
    /\ RatEq(forecast[Len(forecast) - 1].projectedBalance, FinalBalance)
    /\ lowest.date # forecast[Len(forecast)].date
    /\ RatEq(lowest.projectedBalance, FinalBalance)

----------------------------------------------------------------------------
(* Properties of calculateSafeToSpend *)

Calculated == pc = "calculated"

\* C13: safeToSpend is max(0, balance - reservedForBills - buffer): never
\* negative, 0 when reserved + buffer exceed the balance, 1200 for 2000, 300
\* and 500; daysUntilPayday is never negative; buffer and totalBalance echo
\* the arguments.
C13_SafeToSpendClamped ==
    Calculated =>
        LET reserved == details.reservedForBills
            free == RatSub(RatSub(currentBalance, reserved), buffer)
        IN /\ RatEq(details.safeToSpend, IF RatLess(Rat(0), free) THEN free ELSE Rat(0))
           /\ ~RatLess(details.safeToSpend, Rat(0))
           /\ RatLess(currentBalance, RatAdd(reserved, buffer)) => RatEq(details.safeToSpend, Rat(0))
           /\ (RatEq(currentBalance, Rat(2000)) /\ RatEq(reserved, Rat(300)) /\ RatEq(buffer, Rat(500)))
                  => RatEq(details.safeToSpend, Rat(1200))
           /\ details.daysUntilPayday >= 0
           /\ details.buffer = buffer
           /\ details.totalBalance = currentBalance

\* balance 2000 with 300 reserved for one detected bill and the buffer of 500
C13_Witness ==
    /\ Calculated
    /\ RatEq(currentBalance, Rat(2000))
    /\ RatEq(details.reservedForBills, Rat(300))
    /\ RatEq(buffer, Rat(500))
    /\ Len(recurringExpenses) >= 1
    /\ RatEq(details.safeToSpend, Rat(1200))

\* the numbers of intervals an entry may have to be advanced by to reach
\* the day of the call
Steps == 0..(now.day + 1)

\* the incomes no other income exceeds in amount
LargestIncomes ==
    {i \in DOMAIN recurringIncomes :
        \A j \in DOMAIN recurringIncomes :
            ~RatLess(recurringIncomes[i].amount, recurringIncomes[j].amount)}

\* lastCharged + k x intervalDays as a calendar day
OccurrenceDay(entry, k) == entry.lastCharged.day + k * entry.intervalDays

\* lastCharged + k x intervalDays as an instant: the time of day of lastCharged
OccurrenceDate(entry, k) == [day |-> OccurrenceDay(entry, k), time |-> entry.lastCharged.time]

\* the first occurrence whose calendar day is not before the day of the call
NextDayFromToday(entry) ==
    LET k == CHOOSE k \in Steps :
                 /\ OccurrenceDay(entry, k) >= now.day
                 /\ \A j \in 0..(k - 1) : OccurrenceDay(entry, j) < now.day
    IN OccurrenceDay(entry, k)

\* the first occurrence that is not before the moment of the call
NextDateFromNow(entry) ==
    LET k == CHOOSE k \in Steps :
                 /\ ~DateLess(OccurrenceDate(entry, k), now)
                 /\ \A j \in 0..(k - 1) : DateLess(OccurrenceDate(entry, j), now)
    IN OccurrenceDate(entry, k)

NoIncomePayday ==
    recurringIncomes = <<>> =>
        /\ details.nextPayday.day = now.day + 30
        /\ details.daysUntilPayday = 30

\* C14 as stated, dates compared as calendar days: the next payday is the
\* first occurrence of the largest income on or after today; without any
\* income it is today + 30 days and daysUntilPayday is 30.
C14_PaydayOnOrAfterToday ==
    Calculated =>
        /\ NoIncomePayday
        /\ recurringIncomes # <<>> =>
               \E i \in LargestIncomes :
                   details.nextPayday.day = NextDayFromToday(recurringIncomes[i])

\* C14 amended: the next payday is the first occurrence of the largest
\* income that is not before the moment of the call, a trade date standing
\* for 00:00 of its day; without any income it is today + 30 days and
\* daysUntilPayday is 30.
C14_PaydayNotBeforeNow ==
    Calculated =>
        /\ NoIncomePayday
        /\ recurringIncomes # <<>> =>
               \E i \in LargestIncomes :
                   parseISO(details.nextPayday) = NextDateFromNow(recurringIncomes[i])

\* two incomes, the larger one listed with the smaller, a call in the
\* afternoon of a day the larger one falls on: the payday is one interval on
C14_Witness ==
    /\ Calculated
    /\ Len(recurringIncomes) >= 2
    /\ Cardinality(LargestIncomes) = 1
    /\ now.time = 14
    /\ \E i \in LargestIncomes :
          /\ NextDayFromToday(recurringIncomes[i]) = now.day
          /\ details.nextPayday.day = now.day + recurringIncomes[i].intervalDays
          /\ details.daysUntilPayday = recurringIncomes[i].intervalDays - 1

\* the sum of the amounts of the expenses at the indices in S
RECURSIVE AmountOf(_)
AmountOf(S) ==
    IF S = {} THEN Rat(0)
    ELSE LET i == MaxOf(S) IN RatAdd(AmountOf(S \ {i}), recurringExpenses[i].amount)

\* C15 as stated, dates compared as calendar days: reservedForBills is the
\* sum of the amounts of the expenses whose first occurrence on or after
\* today is on or before the day of the next payday, each counted once.
C15_ReservedUntilPaydayByDay ==
    Calculated =>
        RatEq(details.reservedForBills,
              AmountOf({i \in DOMAIN recurringExpenses :
                           NextDayFromToday(recurringExpenses[i]) <= details.nextPayday.day}))

\* C15 amended: reservedForBills is the sum of the amounts of the expenses
\* whose first occurrence not before the moment of the call is not after
\* the next payday, each counted once.
C15_ReservedUntilPayday ==
    Calculated =>
        RatEq(details.reservedForBills,
              AmountOf({i \in DOMAIN recurringExpenses :
                           ~DateLess(parseISO(details.nextPayday),
                                     NextDateFromNow(recurringExpenses[i]))}))

\* one expense recurs at least twice before the payday and is reserved
\* once, another has its next occurrence after the payday and is left out
C15_Witness ==
    /\ Calculated
    /\ \E i, j \in DOMAIN recurringExpenses :
          LET e == recurringExpenses[i]
              f == recurringExpenses[j]
          IN /\ ~DateLess(parseISO(details.nextPayday),
                          addDays(NextDateFromNow(e), e.intervalDays))
             /\ DateLess(parseISO(details.nextPayday), NextDateFromNow(f))
             /\ RatLess(Rat(0), f.amount)
             /\ RatEq(details.reservedForBills, e.amount)

\* C18: calculateSafeToSpend terminates: no call is left in a while loop
\* that cannot end.
C18_CalculateSafeToSpendReturns == pc # "calculating"

----------------------------------------------------------------------------
(* Properties of identifySubscriptions and calculateSubscriptionBurnRate *)

Identified == pc \in {"identified", "summed"}

\* the keyword occurs in the description, letter case ignored
Mentions(description, keyword) ==
    \E from \in 1..Len(description) :
        /\ from + Len(keyword) - 1 <= Len(description)
        /\ \A k \in 1..Len(keyword) :
               toLowerCaseChar(description[from + k - 1]) = toLowerCaseChar(keyword[k])

HousingWords == {<<"r","e","n","t">>,
                 <<"m","o","r","t","g","a","g","e">>,
                 <<"m","i","e","t","e">>,
                 <<"h","y","p","o","t","h","e","k">>,
                 <<"l","e","a","s","e">>}

\* the input positions of the entries that mention no housing keyword
KeptPositions ==
    {i \in DOMAIN detected : \A w \in HousingWords : ~Mentions(detected[i].description, w)}

\* the input position of the k-th kept entry
KeptPosition(k) ==
    CHOOSE i \in KeptPositions : Cardinality({j \in KeptPositions : j <= i}) = k

\* amount x multiplier as hundredths and thousandths
MonthlyShare(entry) ==
    LET a == entry.amount
    IN IF entry.frequency = "weekly" THEN <<a[1] * 433, a[2] * 100>>
       ELSE IF entry.frequency = "bi-weekly" THEN <<a[1] * 217, a[2] * 100>>
       ELSE IF entry.frequency = "monthly" THEN a
       ELSE IF entry.frequency = "quarterly" THEN <<a[1] * 33, a[2] * 100>>
       ELSE <<a[1] * 83, a[2] * 1000>>

RECURSIVE SumOfShares(_)
SumOfShares(S) ==
    IF S = {} THEN Rat(0)
    ELSE LET i == MaxOf(S) IN RatAdd(SumOfShares(S \ {i}), MonthlyShare(detected[i]))

\* C16: the subscriptions are, in input order, the entries mentioning no
\* housing keyword, each with monthlyEquivalent = amount x multiplier of its
\* frequency (99 for a quarterly 300); the burn rate is the sum of the
\* monthly equivalents, 0 for no subscription.
C16_SubscriptionsAndBurnRate ==
    /\ Identified =>
          /\ Len(subscriptions) = Cardinality(KeptPositions)
          /\ \A k \in DOMAIN subscriptions :
                LET rt == detected[KeptPosition(k)]
                    sub == subscriptions[k]
                IN /\ sub.description = rt.description
                   /\ sub.amount = rt.amount
                   /\ sub.frequency = rt.frequency
                   /\ sub.category = rt.category
                   /\ sub.intervalDays = rt.intervalDays
                   /\ sub.lastCharged = rt.lastCharged
                   /\ RatEq(sub.monthlyEquivalent, MonthlyShare(rt))
                   /\ (rt.frequency = "quarterly" /\ RatEq(rt.amount, Rat(300)))
                          => RatEq(sub.monthlyEquivalent, Rat(99))
    /\ pc = "summed" =>
          /\ RatEq(burnRate, SumOfShares(KeptPositions))
          /\ subscriptions = <<>> => RatEq(burnRate, Rat(0))

\* a housing cost spelled in capitals is dropped and the quarterly 300 that
\* follows it is kept at 99 a month
C16_Witness ==
    /\ pc = "summed"
    /\ Len(detected) = 2
    /\ Mentions(detected[1].description, <<"l","e","a","s","e">>)
    /\ ~includes(detected[1].description, <<"l","e","a","s","e">>)
    /\ Len(subscriptions) = 1
    /\ subscriptions[1].frequency = "quarterly"
    /\ RatEq(subscriptions[1].amount, Rat(300))
    /\ RatEq(burnRate, Rat(99))

----------------------------------------------------------------------------
(* Occurrence counts of the returned entries *)

RuleOf(id) == CHOOSE r \in EnabledRules : r.id = id

MatchesOf(rule) == {i \in DOMAIN transactions : ruleMatches(transactions[i], rule)}

\* C17 as stated: every returned entry has occurrences >= minOccurrences
\* unless it is rule-backed with no matched transaction.
C17_OccurrencesReachThreshold ==
    Returned =>
        \A i \in DOMAIN detected :
            \/ detected[i].occurrences >= minOccurrences
            \/ (detected[i].ruleId # Undefined /\ detected[i].occurrences = 0)

\* C17 amended: an automatic entry has occurrences >= minOccurrences; a
\* rule-backed entry has the number of transactions its rule matched as
\* occurrences, whatever the threshold.
C17_OnlyAutomaticReachThreshold ==
    Returned =>
        \A i \in DOMAIN detected :
            IF detected[i].ruleId = Undefined
            THEN /\ detected[i].occurrences >= minOccurrences
                 /\ detected[i].occurrences = Len(detected[i].transactionIds)
            ELSE detected[i].occurrences = Cardinality(MatchesOf(RuleOf(detected[i].ruleId)))

\* a rule-backed entry of a single match under a threshold of three, next
\* to an automatic entry that reaches the threshold
C17_Witness ==
    /\ Returned
    /\ minOccurrences = 3
    /\ \E i, j \in DOMAIN detected :
          /\ detected[i].ruleId # Undefined
          /\ detected[i].occurrences = 1
          /\ detected[j].ruleId = Undefined
          /\ detected[j].occurrences >= 3

----------------------------------------------------------------------------
(* Properties of determineFrequency *)

Classified == pc = "classified"

Frequencies == {"weekly", "bi-weekly", "monthly", "quarterly", "yearly"}

\* m <= n and m > n for the mean gap m = avgDays
AtMost(n) == avgDays[1] <= n * avgDays[2]

Above(n) == avgDays[1] > n * avgDays[2]

Is(n, d) == avgDays[1] * d = n * avgDays[2]

\* C19: every mean gap m > 0 has exactly one band: weekly up to 9,
\* bi-weekly above 9 up to 16, monthly above 16 up to 35, quarterly above 35
\* up to 100, yearly above 100; 9, 16, 35 and 100 fall in the lower band,
\* 9.5 and 16.5 in the upper one.
C19_OneBandPerMeanGap ==
    Classified =>
        /\ frequency \in Frequencies
        /\ frequency = "weekly" <=> AtMost(9)
        /\ frequency = "bi-weekly" <=> (Above(9) /\ AtMost(16))
        /\ frequency = "monthly" <=> (Above(16) /\ AtMost(35))
        /\ frequency = "quarterly" <=> (Above(35) /\ AtMost(100))
        /\ frequency = "yearly" <=> Above(100)
        /\ Is(9, 1) => frequency = "weekly"
        /\ Is(16, 1) => frequency = "bi-weekly"
        /\ Is(35, 1) => frequency = "monthly"
        /\ Is(100, 1) => frequency = "quarterly"
        /\ Is(19, 2) => frequency = "bi-weekly"
        /\ Is(33, 2) => frequency = "monthly"

\* a mean of nine days and a half, between the weekly and bi-weekly bands
C19_Witness ==
    /\ Classified
    /\ Is(19, 2)
    /\ avgDays[2] = 2
    /\ frequency = "bi-weekly"

----------------------------------------------------------------------------
(* Representative amount of an automatic entry *)

\* the transactions of the input that no more than 11 others follow
RecentOccurrences ==
    {t \in Range(transactions) :
        Cardinality({u \in Range(transactions) : u.tradeDate.day > t.tradeDate.day}) < 12}

NewestOccurrence ==
    CHOOSE t \in Range(transactions) :
        \A u \in Range(transactions) : u.tradeDate.day <= t.tradeDate.day

RECURSIVE TotalOf(_)
TotalOf(T) ==
    IF T = {} THEN 0
    ELSE LET t == CHOOSE x \in T : TRUE IN t.amount + TotalOf(T \ {t})

\* the amount decided on the most recent occurrences alone: their average
\* when max - min among them exceeds a tenth of it, else the newest amount
AmountOfRecent ==
    LET amounts == {t.amount : t \in RecentOccurrences}
        total == TotalOf(RecentOccurrences)
        count == Cardinality(RecentOccurrences)
    IN IF (MaxOf(amounts) - MinOf(amounts)) * 10 * count > total
       THEN <<total, count>>
       ELSE Rat(NewestOccurrence.amount)

\* C20: the amount of an automatic entry is decided by the most recent (at
\* most 12) occurrences of its group alone.
C20_AmountFromRecentOnly ==
    Returned =>
        \A i \in AutomaticEntries : RatEq(detected[i].amount, AmountOfRecent)

----------------------------------------------------------------------------
(* Interval of a rule-backed entry *)

MatchedOf(rule) == {transactions[i] : i \in MatchesOf(rule)}

\* the mean of the consecutive day-gaps of a set of transactions, rounded
\* to whole days, halves upwards
RoundedMeanGap(G) == (2 * GapSum(G) + GapCount(G)) \div (2 * GapCount(G))

\* the entries of the output that come from an enabled non-exclusion rule
\* with at least n matched transactions
RuleEntries(n) ==
    {i \in DOMAIN detected :
        /\ detected[i].ruleId # Undefined
        /\ Cardinality(MatchesOf(RuleOf(detected[i].ruleId))) >= n}

\* C21 as stated: the entry of a non-exclusion rule that matched two or
\* more transactions has the rounded mean of their consecutive day-gaps as
\* intervalDays, whatever interval the rule declares.
C21_IntervalIsRoundedMeanGap ==
    Returned =>
        \A i \in RuleEntries(2) :
            detected[i].intervalDays = RoundedMeanGap(MatchedOf(RuleOf(detected[i].ruleId)))

\* C21 amended: the entry of a non-exclusion rule that matched at least one
\* transaction has the interval the rule declares as intervalDays; only for
\* a rule declaring none is it the rounded mean of the consecutive day-gaps
\* (two or more matches) or 30 (one match).
C21_DeclaredIntervalComesFirst ==
    Returned =>
        \A i \in RuleEntries(1) :
            LET rule == RuleOf(detected[i].ruleId)
                G == MatchedOf(rule)
            IN detected[i].intervalDays =
                   IF rule.intervalDays # 0 THEN rule.intervalDays
                   ELSE IF Cardinality(G) >= 2 THEN RoundedMeanGap(G)
                   ELSE 30

\* a rule declaring 30 days whose two matches lie 31 days apart, next to a
\* rule declaring no interval whose entry carries the mean gap of its matches
C21_Witness ==
    /\ Returned
    /\ \E i \in RuleEntries(2) :
          LET rule == RuleOf(detected[i].ruleId)
          IN /\ rule.intervalDays = 30
             /\ detected[i].occurrences = 2
             /\ RoundedMeanGap(MatchedOf(rule)) = 31
             /\ detected[i].intervalDays = 30
    /\ \E j \in RuleEntries(2) :
          LET rule == RuleOf(detected[j].ruleId)
          IN /\ rule.intervalDays = 0
             /\ detected[j].intervalDays = RoundedMeanGap(MatchedOf(rule))

----------------------------------------------------------------------------
(* Projected entry of a rule without matches *)

\* the transaction context: the list is empty, or all of one direction
ContextIsEmpty == transactions = <<>>

ContextHas(type) ==
    transactions # <<>> /\ \A i \in DOMAIN transactions : transactions[i].type = type

ContextHasOther(type) ==
    transactions # <<>> /\ \A i \in DOMAIN transactions : transactions[i].type # type

\* the enabled rules that match nothing and name a pattern or an amount
UnmatchedRules ==
    {r \in EnabledRules :
        /\ MatchesOf(r) = {}
        /\ (r.descriptionPattern # <<>> \/ r.expectedAmount # 0)}

EntriesOfRule(r) == {i \in DOMAIN detected : detected[i].ruleId = r.id}

IsProjectionOf(entry, r) ==
    /\ entry.occurrences = 0
    /\ entry.transactionIds = <<>>
    /\ RatEq(entry.amount, Rat(r.expectedAmount))
    /\ entry.intervalDays = (IF r.intervalDays # 0 THEN r.intervalDays ELSE 30)
    /\ entry.ruleId = r.id

----------------------------------------------------------------------------
(* Month-end projection of rule-backed entries *)

RuleBackedOnly == AllEntries # {} /\ \A e \in AllEntries : e.ruleId # Undefined

RECURSIVE AmountsOf(_)
AmountsOf(entries) ==
    IF entries = <<>> THEN Rat(0)
    ELSE RatAdd(entries[1].amount, AmountsOf(Tail(entries)))

\* what one occurrence of every entry adds to the balance
NetOfOneOccurrence == RatSub(AmountsOf(recurringIncomes), AmountsOf(recurringExpenses))

BalanceBefore(k) == IF k = 1 THEN currentBalance ELSE forecast[k - 1].projectedBalance

\* C23: with rule-backed entries only, every point dated the last day of a
\* month, the start day included, carries one occurrence of every entry and
\* an event, and every other point carries none, whatever the entries'
\* intervalDays and lastCharged.
C23_EventOnEveryMonthEnd ==
    (Projected /\ RuleBackedOnly) =>
        \A k \in DOMAIN forecast :
            IF IsMonthEnd(forecast[k].date)
            THEN /\ RatEq(forecast[k].projectedBalance,
                          RatAdd(BalanceBefore(k), NetOfOneOccurrence))
                 /\ forecast[k].event # <<>>
            ELSE /\ RatEq(forecast[k].projectedBalance, BalanceBefore(k))
                 /\ forecast[k].event = <<>>

----------------------------------------------------------------------------
(* Several events on one day *)

\* the events bucketed under the date of point k, incomes and expenses
\* apart, each in the order of its entries
IncomesOn(k) ==
    SelectSeq(eventsOf(recurringIncomes, "income", startDate, daysToProject),
              LAMBDA e : e.date = forecast[k].date)

ExpensesOn(k) ==
    SelectSeq(eventsOf(recurringExpenses, "expense", startDate, daysToProject),
              LAMBDA e : e.date = forecast[k].date)

ShownEvent(e) == [type |-> e.type, description |-> e.description, amount |-> e.amount]

\* C24: the balance of a point is the previous balance plus every income
\* and minus every expense bucketed under its date; its event is the first
\* one bucketed under that date, incomes coming before expenses; it has an
\* event exactly when something was bucketed under its date.
C24_AllEventsOfTheDayCount ==
    Projected =>
        \A k \in DOMAIN forecast :
            /\ RatEq(forecast[k].projectedBalance,
                     RatSub(RatAdd(BalanceBefore(k), AmountsOf(IncomesOn(k))),
                            AmountsOf(ExpensesOn(k))))
            /\ forecast[k].event =
                   IF IncomesOn(k) # <<>> THEN <<ShownEvent(IncomesOn(k)[1])>>
                   ELSE IF ExpensesOn(k) # <<>> THEN <<ShownEvent(ExpensesOn(k)[1])>>
                   ELSE <<>>
            /\ forecast[k].event # <<>> <=> (IncomesOn(k) # <<>> \/ ExpensesOn(k) # <<>>)

\* a day with one income and two expenses: the point shows the income and
\* its balance moved by all three; another point has no event
C24_Witness ==
    /\ Projected
    /\ \E k \in DOMAIN forecast :
          /\ Len(IncomesOn(k)) = 1
          /\ Len(ExpensesOn(k)) = 2
          /\ forecast[k].event # <<>>
          /\ forecast[k].event[1].type = "income"
          /\ ~RatEq(forecast[k].projectedBalance,
                    RatAdd(BalanceBefore(k), forecast[k].event[1].amount))
    /\ \E k \in DOMAIN forecast : forecast[k].event = <<>>

----------------------------------------------------------------------------
(* Properties of normalizeDescription *)

Normalized == pc = "normalized"

Letters == Range(UpperLetters) \cup Range(LowerLetters)

WithoutDigits(s) == SelectSeq(s, LAMBDA c : c \notin Digits)

\* C25: the key of any description, the empty one included, has at most 30
\* characters, no upper-case letter, no digit and nothing but letters,
\* digits and spaces ('-', '.', '*' and '_' are all removed), and it is the
\* key of the description with its digits taken out.
C25_KeyIsCleanAndIgnoresDigits ==
    Normalized =>
        /\ Len(normalizedDesc) <= 30
        /\ \A i \in DOMAIN normalizedDesc :
              /\ normalizedDesc[i] \notin Range(UpperLetters)
              /\ normalizedDesc[i] \notin Digits
              /\ normalizedDesc[i] \in Letters \cup Digits \cup {" "}
        /\ normalizedDesc = normalizeDescription(WithoutDigits(rawDescription))

----------------------------------------------------------------------------
(* No transaction under two entries *)

\* C26: no transaction id is among the transactionIds of two different
\* entries of the output, overlapping rules included.
C26_NoTransactionInTwoEntries ==
    Returned =>
        \A i, j \in DOMAIN detected :
            i # j => Range(detected[i].transactionIds) \cap Range(detected[j].transactionIds) = {}

----------------------------------------------------------------------------
(* Direction of the rule-backed entries in the pipeline *)

Detected == pc # "calculate"

\* every rule-backed entry of the list comes from a rule of the given type
OnlyRulesOf(entries, type) ==
    \A i \in DOMAIN entries :
        entries[i].ruleId # Undefined => RuleOf(entries[i].ruleId).type = type

\* C27: after detection on the credits and on the debits with the same
\* rules, the recurring incomes hold no entry of a DEBIT rule and the
\* recurring expenses none of a CREDIT rule, also when there are no credits
\* or no debits.
C27_RuleEntriesKeepTheirDirection ==
    Detected =>
        /\ OnlyRulesOf(recurringIncomes, "CREDIT")
        /\ OnlyRulesOf(recurringExpenses, "DEBIT")

----------------------------------------------------------------------------
(* Frequency label and interval of one entry *)

\* C28: every returned entry with two or more occurrences carries the
\* frequency of the band its own intervalDays lies in.
C28_FrequencyIsBandOfInterval ==
    Returned =>
        \A i \in DOMAIN detected :
            detected[i].occurrences >= 2 =>
                detected[i].frequency = BandOf(detected[i].intervalDays)

----------------------------------------------------------------------------
(* C29: useRecurringRulesManager *)

\* the list the hook holds once its queued update is applied
LatestRules == IF pendingRules # <<>> THEN pendingRules[1] ELSE rulesState

\* C29: the item stored for a session is only ever written for the active
\* session and with that session's list (never another session's list or the
\* empty initial list over stored rules), and once the effects have run the
\* stored list of the active session is the list in memory
C29_StoredRulesFollowTheSession ==
    /\ [][\A s \in Sessions :
             localStorage'[s] # localStorage[s]
                 => /\ s = activeSession
                    /\ localStorage'[s] = stringify(LatestRules)]_vars
    /\ [](ManagerSettled /\ activeSession \in Sessions
             => localStorage[activeSession] = stringify(rulesState))

----------------------------------------------------------------------------
(* C30: App *)

\* C30: whenever no asynchronous call is pending, the statements in memory
\* are those stored for the active session, and none without a session; and
\* no statement loaded for one session is ever held under another
C30_StatementsAreThoseOfTheSession ==
    /\ pending = <<>>
          => statements = IF activeSession \in Sessions THEN loadSessionData(activeSession) ELSE {}
    /\ \A st \in statements : st.id[2] = activeSession

====
